---------------------------- MODULE Spec2Model ----------------------------
(***************************************************************************)
(* A model of the rust-nes 6502 core: the bus (src/src/memory.rs), the     *)
(* opcode decoder and encoder (src/src/instructions.rs) and the register   *)
(* file, stack helpers and executor (src/src/cpu.rs).                      *)
(*                                                                         *)
(* The NesCpu struct is the three variables memory, reg and current.  The  *)
(* process state the host observes (running, exited on JAM, exited on an   *)
(* unknown pattern or panicked) is the variable status.  Rust's "+", "-"   *)
(* and "+=" on u8/u16 panic on overflow in a build with overflow checks    *)
(* (the default dev/test profile) and wrap in a build without them (the    *)
(* default release profile); overflow_checks is chosen in Init and both    *)
(* builds are explored.                                                    *)
(***************************************************************************)
EXTENDS Integers, Sequences, FiniteSets, TLC

VARIABLES
  memory,           \* NesCpu.memory.bytes, kept sparse: address -> non-zero byte
  reg,              \* NesCpu.reg: pc, sp, accumulator, idx, idy, flags
  current,          \* NesCpu.current: the last decoded (op, mode)
  status,           \* "RUNNING", "HALTED" (exit on JAM) or "FAULTED" (exit/panic)
  overflow_checks,  \* TRUE: arithmetic overflow panics; FALSE: it wraps
  steps,            \* fetch_decode_next calls made so far by the host loop
  call,             \* the harness call under way (arguments of a direct call)
  ret,              \* what that call returned, as a tuple: <<op, mode>> or <<byte>>
  waiting           \* TRUE while breakpoint is blocked in stdin().read_line()

vars == <<memory, reg, current, status, overflow_checks, steps, call, ret, waiting>>

(***************************************************************************)
(* Bytes, words and bit operations                                         *)
(***************************************************************************)
Byte == 0..255

W8(n)  == n % 256
W16(n) == n % 65536

Bit(v, i) == (v \div (2^i)) % 2

\* u8 `&`, `|` and `^`
And8(a, b) ==
  LET t(i) == Bit(a, i) * Bit(b, i) * (2^i)
  IN  t(0) + t(1) + t(2) + t(3) + t(4) + t(5) + t(6) + t(7)
Or8(a, b) == a + b - And8(a, b)
Xor8(a, b) == a + b - 2 * And8(a, b)

\* u8::rotate_left(1) and u8::rotate_right(1)
rotate_left(v)  == W8(v * 2) + Bit(v, 7)
\* a rotate_right that drops bit 0 instead of wrapping it to bit 7
rotate_right_without_wrap(value) == value \div 2
rotate_right(v) == (v \div 2) + 128 * Bit(v, 0)

(***************************************************************************)
(* lib.rs                                                                  *)
(***************************************************************************)
combine_bytes_to_u16(high, low) == high * 256 + low

(***************************************************************************)
(* memory.rs: the bus.  bytes is [u8; 65536], all zero at Memory::new();   *)
(* the model keeps only the non-zero cells.                                *)
(***************************************************************************)
ADDR_HI == \hFFFF

PPU_REGISTERS == \h2000..\h2007
IO_PORTS      == \h4000..\h401F

Memory_new == [a \in {} |-> 0]

\* self.bytes[address as usize]
Cell(bytes, address) == IF address \in DOMAIN bytes THEN bytes[address] ELSE 0

\* self.bytes[address as usize] = byte
SetCell(bytes, address, byte) ==
  IF byte # 0 THEN (address :> byte) @@ bytes
  ELSE IF address \in DOMAIN bytes
    THEN [a \in (DOMAIN bytes) \ {address} |-> bytes[a]]
  ELSE bytes

read_byte(bytes, address) ==
  IF address \in PPU_REGISTERS THEN 0
  ELSE IF address \in IO_PORTS THEN 0
  ELSE Cell(bytes, address)

\* read_word evaluates `address + 1` as a u16 sum
read_word_panics(address) == overflow_checks /\ address + 1 > ADDR_HI
read_word(bytes, address) ==
  combine_bytes_to_u16(Cell(bytes, W16(address + 1)), Cell(bytes, address))

\* a write_byte whose I/O arms store the byte eight cells further on
write_byte_mirrored(bytes, address, byte) ==
  IF address \in PPU_REGISTERS \cup IO_PORTS
    THEN SetCell(bytes, W16(address + 8), byte)
    ELSE SetCell(bytes, address, byte)
write_byte(bytes, address, byte) ==
  IF address \in PPU_REGISTERS THEN bytes
  ELSE IF address \in IO_PORTS THEN bytes
  ELSE SetCell(bytes, address, byte)

\* Bus::write_bytes: write_byte(address + offset as u16, byte) for each byte in
\* turn; the cast truncates the offset to 16 bits, the sum is a checked u16
\* addition.  write_range does the writes first..last of the slice in order.
RECURSIVE write_range(_, _, _, _, _)
write_range(bytes, address, data, first, last) ==
  IF first > last THEN bytes
  ELSE IF first = last
    THEN write_byte(bytes, W16(address + W16(first - 1)), data[first])
  ELSE LET middle == (first + last) \div 2
           lower == write_range(bytes, address, data, first, middle)
       IN  \* the test has the lower half evaluated before the upper half begins
           IF DOMAIN lower \subseteq 0..ADDR_HI
             THEN write_range(lower, address, data, middle + 1, last)
             ELSE lower
write_bytes(bytes, address, data) == write_range(bytes, address, data, 1, Len(data))
write_bytes_panics(address, data) ==
  /\ overflow_checks
  /\ \E offset \in 0..(Len(data) - 1) : address + W16(offset) > ADDR_HI

(***************************************************************************)
(* instructions.rs: the enums, get_increment, the decoder and the encoder  *)
(***************************************************************************)
AddressingMode ==
  { "Accumulator", "Absolute", "AbsoluteX", "AbsoluteY", "Immediate", "Implied",
    "Indirect", "XIndirect", "YIndirect", "Relative", "ZeroPage", "ZeroPageX",
    "ZeroPageY" }

Instructions ==
  { "SetInterruptDisable", "ClearInterruptDisable", "SetDecimalMode",
    "ClearDecimalMode", "ClearOverflow", "SetCarry", "ClearCarry",
    "LoadAccumulator", "StoreAccumulator", "LoadX", "LoadY", "StoreX", "StoreY",
    "MoveXToStackPointer", "MoveStackPointerToX", "EORAccumulator",
    "ORAccumulator", "ANDAccumulator", "CompareAccumulator", "CompareX",
    "CompareY", "BranchOnCarrySet", "BranchOnCarryClear", "BranchOnResultZero",
    "BranchOnResultMinus", "BranchOnResultNotZero", "BranchOnResultPlus",
    "BranchOnOverflowClear", "BranchOnOverflowSet", "DecrementX", "DecrementY",
    "DecrementMem", "IncrementX", "IncrementY", "IncrementMem", "JumpSubroutine",
    "Jump", "PullAccumulatorFromStack", "PullProcessorStatusFromStack",
    "PushAccumulatorOnStack", "PushProcessorStatusOnStack", "ShiftOneRight",
    "ShiftOneLeft", "RotateOneLeft", "RotateOneRight", "ReturnFromInterrupt",
    "ReturnFromSubroutine", "TransferAccumulatorToY", "TransferAccumulatorToX",
    "TransferXToAccumulator", "TransferYToAccumulator", "TransferStackPointerToX",
    "AddMemToAccumulatorWithCarry", "TestBitsAccumulator",
    "SubtractAccumulatorWithBorrow", "MissingOperation", "NoOperation", "JAM",
    "ForceBreak", "ISC", "SLO", "SAX", "DCP", "ARR", "TAS", "ANE", "LAX", "RLA",
    "ANC", "SRE", "RRA", "ALR", "USBC", "LAS", "LXA", "SHA", "SBX", "SHY", "SHX" }

\* CurrentInstruction::new
CurrentInstruction_new == [op |-> "JAM", mode |-> "Implied"]

get_increment(mode) ==
  CASE mode \in {"Implied", "Accumulator"} -> 1
    [] mode \in {"Immediate", "XIndirect", "YIndirect", "ZeroPage", "ZeroPageX",
                 "ZeroPageY", "Relative"} -> 2
    [] mode \in {"Absolute", "AbsoluteX", "AbsoluteY", "Indirect"} -> 3

\* A decoder whose match lacks arms: every byte outside the official NOP
\* falls through to a value that is no (Instructions, AddressingMode) pair.
decode_instruction_without_arms(opcode) ==
  CASE opcode = \hEA -> <<"NoOperation", "Implied">>
    [] OTHER -> <<"Undefined", "Implied">>

decode_instruction(opcode) ==
  CASE opcode = \h78 -> <<"SetInterruptDisable", "Implied">>
    [] opcode = \hD8 -> <<"ClearDecimalMode", "Implied">>
    [] opcode = \hA9 -> <<"LoadAccumulator", "Immediate">>
    [] opcode = \h8D -> <<"StoreAccumulator", "Absolute">>
    [] opcode = \hA2 -> <<"LoadX", "Immediate">>
    [] opcode = \h9A -> <<"MoveXToStackPointer", "Implied">>
    [] opcode = \hAD -> <<"LoadAccumulator", "Absolute">>
    [] opcode = \h10 -> <<"BranchOnResultPlus", "Relative">>
    [] opcode = \hA0 -> <<"LoadY", "Immediate">>
    [] opcode = \hBD -> <<"LoadAccumulator", "AbsoluteX">>
    [] opcode = \hC9 -> <<"CompareAccumulator", "Immediate">>
    [] opcode = \hB0 -> <<"BranchOnCarrySet", "Relative">>
    [] opcode = \hCA -> <<"DecrementX", "Implied">>
    [] opcode = \h88 -> <<"DecrementY", "Implied">>
    [] opcode = \hD0 -> <<"BranchOnResultNotZero", "Relative">>
    [] opcode = \h20 -> <<"JumpSubroutine", "Absolute">>
    [] opcode = \hEE -> <<"IncrementMem", "Absolute">>
    [] opcode = \h09 -> <<"ORAccumulator", "Immediate">>
    [] opcode = \h4C -> <<"Jump", "Absolute">>
    [] opcode = \h6C -> <<"Jump", "Indirect">>
    [] opcode = \h01 -> <<"ORAccumulator", "XIndirect">>
    [] opcode = \h11 -> <<"ORAccumulator", "YIndirect">>
    [] opcode = \hC8 -> <<"IncrementY", "Implied">>
    [] opcode = \hEC -> <<"CompareX", "Absolute">>
    [] opcode = \h41 -> <<"EORAccumulator", "XIndirect">>
    [] opcode = \h68 -> <<"PullAccumulatorFromStack", "Implied">>
    [] opcode = \hDE -> <<"DecrementMem", "AbsoluteX">>
    [] opcode = \h8E -> <<"StoreX", "Absolute">>
    [] opcode = \h8C -> <<"StoreY", "Absolute">>
    [] opcode = \h29 -> <<"ANDAccumulator", "Immediate">>
    [] opcode = \hAC -> <<"LoadY", "Absolute">>
    [] opcode = \hAE -> <<"LoadX", "Absolute">>
    [] opcode = \h85 -> <<"StoreAccumulator", "ZeroPage">>
    [] opcode = \hE0 -> <<"CompareX", "Immediate">>
    [] opcode = \hBE -> <<"LoadX", "AbsoluteY">>
    [] opcode = \h9D -> <<"StoreAccumulator", "AbsoluteX">>
    [] opcode = \h4A -> <<"ShiftOneRight", "Accumulator">>
    [] opcode = \hF0 -> <<"BranchOnResultZero", "Relative">>
    [] opcode = \hC6 -> <<"DecrementMem", "ZeroPage">>
    [] opcode = \hCE -> <<"DecrementMem", "Absolute">>
    [] opcode = \hE6 -> <<"IncrementMem", "ZeroPage">>
    [] opcode = \hF6 -> <<"IncrementMem", "ZeroPageX">>
    [] opcode = \h45 -> <<"EORAccumulator", "ZeroPage">>
    [] opcode = \h18 -> <<"ClearCarry", "Implied">>
    [] opcode = \h38 -> <<"SetCarry", "Implied">>
    [] opcode = \h7E -> <<"RotateOneRight", "AbsoluteX">>
    [] opcode = \hE8 -> <<"IncrementX", "Implied">>
    [] opcode = \h48 -> <<"PushAccumulatorOnStack", "Implied">>
    [] opcode = \h40 -> <<"ReturnFromInterrupt", "Implied">>
    [] opcode = \h60 -> <<"ReturnFromSubroutine", "Implied">>
    [] opcode = \hA8 -> <<"TransferAccumulatorToY", "Implied">>
    [] opcode = \h84 -> <<"StoreY", "ZeroPage">>
    [] opcode = \h49 -> <<"EORAccumulator", "Immediate">>
    [] opcode = \hC5 -> <<"CompareAccumulator", "ZeroPage">>
    [] opcode = \h90 -> <<"BranchOnCarryClear", "Relative">>
    [] opcode = \h79 -> <<"AddMemToAccumulatorWithCarry", "AbsoluteY">>
    [] opcode = \h65 -> <<"AddMemToAccumulatorWithCarry", "ZeroPage">>
    [] opcode = \hB9 -> <<"LoadAccumulator", "AbsoluteY">>
    [] opcode = \h69 -> <<"AddMemToAccumulatorWithCarry", "Immediate">>
    [] opcode = \h31 -> <<"ANDAccumulator", "YIndirect">>
    [] opcode = \h2C -> <<"TestBitsAccumulator", "Absolute">>
    [] opcode = \h24 -> <<"TestBitsAccumulator", "ZeroPage">>
    [] opcode = \h99 -> <<"StoreAccumulator", "AbsoluteY">>
    [] opcode = \h0D -> <<"ORAccumulator", "Absolute">>
    [] opcode = \hC0 -> <<"CompareY", "Immediate">>
    [] opcode = \h8A -> <<"TransferXToAccumulator", "Implied">>
    [] opcode = \h30 -> <<"BranchOnResultMinus", "Relative">>
    [] opcode = \hA5 -> <<"LoadAccumulator", "ZeroPage">>
    [] opcode = \h0A -> <<"ShiftOneLeft", "Accumulator">>
    [] opcode = \h81 -> <<"StoreAccumulator", "XIndirect">>
    [] opcode = \hC1 -> <<"CompareAccumulator", "XIndirect">>
    [] opcode = \h05 -> <<"ORAccumulator", "ZeroPage">>
    [] opcode = \h28 -> <<"PullProcessorStatusFromStack", "Implied">>
    [] opcode = \h86 -> <<"StoreX", "ZeroPage">>
    [] opcode = \hB4 -> <<"LoadY", "ZeroPageX">>
    [] opcode = \h98 -> <<"TransferYToAccumulator", "Implied">>
    [] opcode = \hE9 -> <<"SubtractAccumulatorWithBorrow", "Immediate">>
    [] opcode = \hF8 -> <<"SetDecimalMode", "Implied">>
    [] opcode = \h50 -> <<"BranchOnOverflowClear", "Relative">>
    [] opcode = \hFE -> <<"IncrementMem", "AbsoluteX">>
    [] opcode = \hAA -> <<"TransferAccumulatorToX", "Implied">>
    [] opcode = \hBC -> <<"LoadY", "AbsoluteX">>
    [] opcode = \hA6 -> <<"LoadX", "ZeroPage">>
    [] opcode = \hB5 -> <<"LoadAccumulator", "ZeroPageX">>
    [] opcode = \h19 -> <<"ORAccumulator", "AbsoluteY">>
    [] opcode = \h70 -> <<"BranchOnOverflowSet", "Relative">>
    [] opcode = \h16 -> <<"ShiftOneLeft", "ZeroPageX">>
    [] opcode = \h91 -> <<"StoreAccumulator", "YIndirect">>
    [] opcode = \h15 -> <<"ORAccumulator", "ZeroPageX">>
    [] opcode = \h1D -> <<"ORAccumulator", "AbsoluteX">>
    [] opcode = \h0E -> <<"ShiftOneLeft", "Absolute">>
    [] opcode = \h2E -> <<"RotateOneLeft", "Absolute">>
    [] opcode = \h21 -> <<"ANDAccumulator", "XIndirect">>
    [] opcode = \hCD -> <<"CompareAccumulator", "Absolute">>
    [] opcode = \h25 -> <<"ANDAccumulator", "ZeroPage">>
    [] opcode = \h26 -> <<"RotateOneLeft", "ZeroPage">>
    [] opcode = \h36 -> <<"RotateOneLeft", "ZeroPageX">>
    [] opcode = \h46 -> <<"ShiftOneRight", "ZeroPage">>
    [] opcode = \h56 -> <<"ShiftOneRight", "ZeroPageX">>
    [] opcode = \h2D -> <<"ANDAccumulator", "Absolute">>
    [] opcode = \h3D -> <<"ANDAccumulator", "AbsoluteX">>
    [] opcode = \h39 -> <<"ANDAccumulator", "AbsoluteY">>
    [] opcode = \h08 -> <<"PushProcessorStatusOnStack", "Implied">>
    [] opcode = \h5D -> <<"EORAccumulator", "AbsoluteX">>
    [] opcode = \h59 -> <<"EORAccumulator", "AbsoluteY">>
    [] opcode = \h6E -> <<"RotateOneRight", "Absolute">>
    [] opcode = \h2A -> <<"RotateOneLeft", "Accumulator">>
    [] opcode = \h06 -> <<"ShiftOneLeft", "ZeroPage">>
    [] opcode = \hA1 -> <<"LoadAccumulator", "XIndirect">>
    [] opcode = \hB1 -> <<"LoadAccumulator", "YIndirect">>
    [] opcode = \hA4 -> <<"LoadY", "ZeroPage">>
    [] opcode = \h4E -> <<"ShiftOneRight", "Accumulator">>
    [] opcode = \h35 -> <<"ANDAccumulator", "ZeroPageX">>
    [] opcode = \hBA -> <<"TransferStackPointerToX", "Implied">>
    [] opcode = \h66 -> <<"RotateOneRight", "ZeroPage">>
    [] opcode = \h6A -> <<"RotateOneRight", "Accumulator">>
    [] opcode = \h4D -> <<"EORAccumulator", "Absolute">>
    [] opcode = \h51 -> <<"EORAccumulator", "YIndirect">>
    [] opcode = \h6D -> <<"AddMemToAccumulatorWithCarry", "Absolute">>
    [] opcode = \h61 -> <<"AddMemToAccumulatorWithCarry", "XIndirect">>
    [] opcode = \h71 -> <<"AddMemToAccumulatorWithCarry", "YIndirect">>
    [] opcode = \h76 -> <<"RotateOneRight", "ZeroPageX">>
    [] opcode = \hB6 -> <<"LoadX", "ZeroPageY">>
    [] opcode = \h5E -> <<"ShiftOneRight", "AbsoluteX">>
    [] opcode = \hCC -> <<"CompareY", "Absolute">>
    [] opcode = \h58 -> <<"ClearInterruptDisable", "Implied">>
    [] opcode = \h1E -> <<"ShiftOneLeft", "AbsoluteX">>
    [] opcode = \hF9 -> <<"SubtractAccumulatorWithBorrow", "AbsoluteY">>
    [] opcode = \h55 -> <<"EORAccumulator", "ZeroPageX">>
    [] opcode = \hD1 -> <<"CompareAccumulator", "YIndirect">>
    [] opcode = \hFD -> <<"SubtractAccumulatorWithBorrow", "AbsoluteX">>
    [] opcode = \h95 -> <<"StoreAccumulator", "ZeroPageX">>
    [] opcode = \hD9 -> <<"CompareAccumulator", "AbsoluteY">>
    [] opcode = \h96 -> <<"StoreX", "ZeroPageY">>
    [] opcode = \h94 -> <<"StoreY", "ZeroPageX">>
    [] opcode = \hDD -> <<"CompareAccumulator", "AbsoluteX">>
    [] opcode = \hB8 -> <<"ClearOverflow", "Implied">>
    [] opcode = \hD6 -> <<"DecrementMem", "ZeroPageX">>
    [] opcode = \hC4 -> <<"CompareY", "ZeroPage">>
    [] opcode = \h7D -> <<"AddMemToAccumulatorWithCarry", "AbsoluteX">>
    [] opcode = \h75 -> <<"AddMemToAccumulatorWithCarry", "ZeroPageX">>
    [] opcode = \hE4 -> <<"CompareX", "ZeroPage">>
    [] opcode = \hD5 -> <<"CompareAccumulator", "ZeroPageX">>
    [] opcode = \hED -> <<"SubtractAccumulatorWithBorrow", "Absolute">>
    [] opcode = \hE5 -> <<"SubtractAccumulatorWithBorrow", "ZeroPage">>
    [] opcode = \hF5 -> <<"SubtractAccumulatorWithBorrow", "ZeroPageX">>
    [] opcode = \hE1 -> <<"SubtractAccumulatorWithBorrow", "XIndirect">>
    [] opcode = \hF1 -> <<"SubtractAccumulatorWithBorrow", "YIndirect">>
    [] opcode = \h3E -> <<"RotateOneLeft", "AbsoluteX">>
    [] opcode = \h03 -> <<"SLO", "XIndirect">>
    [] opcode = \h07 -> <<"SLO", "ZeroPage">>
    [] opcode = \h13 -> <<"SLO", "YIndirect">>
    [] opcode = \h17 -> <<"SLO", "ZeroPageX">>
    [] opcode = \h1F -> <<"SLO", "AbsoluteX">>
    [] opcode = \h0F -> <<"SLO", "Absolute">>
    [] opcode = \h1B -> <<"SLO", "AbsoluteY">>
    [] opcode = \hE7 -> <<"ISC", "ZeroPage">>
    [] opcode = \hF3 -> <<"ISC", "YIndirect">>
    [] opcode = \hE3 -> <<"ISC", "XIndirect">>
    [] opcode = \hEF -> <<"ISC", "Absolute">>
    [] opcode = \hFB -> <<"ISC", "AbsoluteY">>
    [] opcode = \hFF -> <<"ISC", "AbsoluteX">>
    [] opcode = \hF7 -> <<"ISC", "ZeroPageX">>
    [] opcode = \h27 -> <<"RLA", "ZeroPage">>
    [] opcode = \h23 -> <<"RLA", "XIndirect">>
    [] opcode = \h37 -> <<"RLA", "ZeroPage">>
    [] opcode = \h2F -> <<"RLA", "Absolute">>
    [] opcode = \h3B -> <<"RLA", "AbsoluteY">>
    [] opcode = \h33 -> <<"RLA", "YIndirect">>
    [] opcode = \h3F -> <<"RLA", "AbsoluteX">>
    [] opcode = \h67 -> <<"RRA", "ZeroPage">>
    [] opcode = \h63 -> <<"RRA", "XIndirect">>
    [] opcode = \h7F -> <<"RRA", "AbsoluteX">>
    [] opcode = \h7B -> <<"RRA", "AbsoluteY">>
    [] opcode = \h73 -> <<"RRA", "YIndirect">>
    [] opcode = \h6F -> <<"RRA", "Absolute">>
    [] opcode = \h77 -> <<"RRA", "ZeroPageX">>
    [] opcode = \hA3 -> <<"LAX", "XIndirect">>
    [] opcode = \hA7 -> <<"LAX", "ZeroPage">>
    [] opcode = \hAF -> <<"LAX", "Absolute">>
    [] opcode = \hBF -> <<"LAX", "AbsoluteY">>
    [] opcode = \hB7 -> <<"LAX", "ZeroPageY">>
    [] opcode = \hB3 -> <<"LAX", "YIndirect">>
    [] opcode = \h5B -> <<"SRE", "AbsoluteY">>
    [] opcode = \h43 -> <<"SRE", "XIndirect">>
    [] opcode = \h53 -> <<"SRE", "YIndirect">>
    [] opcode = \h5F -> <<"SRE", "AbsoluteX">>
    [] opcode = \h4F -> <<"SRE", "Absolute">>
    [] opcode = \h47 -> <<"SRE", "ZeroPage">>
    [] opcode = \h57 -> <<"SRE", "ZeroPageX">>
    [] opcode = \hC3 -> <<"DCP", "XIndirect">>
    [] opcode = \hD3 -> <<"DCP", "YIndirect">>
    [] opcode = \hDB -> <<"DCP", "AbsoluteY">>
    [] opcode = \hC7 -> <<"DCP", "ZeroPage">>
    [] opcode = \hD7 -> <<"DCP", "ZeroPageX">>
    [] opcode = \hDF -> <<"DCP", "AbsoluteX">>
    [] opcode = \hCF -> <<"DCP", "Absolute">>
    [] opcode = \hEB -> <<"USBC", "Immediate">>
    [] opcode = \h97 -> <<"SAX", "ZeroPageY">>
    [] opcode = \h8F -> <<"SAX", "Absolute">>
    [] opcode = \h83 -> <<"SAX", "XIndirect">>
    [] opcode = \h6B -> <<"ARR", "Immediate">>
    [] opcode = \h4B -> <<"ALR", "Immediate">>
    [] opcode = \h9E -> <<"SHX", "AbsoluteY">>
    [] opcode = \h9C -> <<"SHY", "AbsoluteX">>
    [] opcode = \h9F -> <<"SHA", "AbsoluteY">>
    [] opcode = \h93 -> <<"SHA", "YIndirect">>
    [] opcode = \h2B -> <<"ANC", "Immediate">>
    [] opcode = \h0B -> <<"ANC", "Immediate">>
    [] opcode = \h8B -> <<"ANE", "Immediate">>
    [] opcode = \h87 -> <<"SAX", "ZeroPage">>
    [] opcode = \h9B -> <<"TAS", "AbsoluteY">>
    [] opcode = \hBB -> <<"LAS", "AbsoluteY">>
    [] opcode = \hAB -> <<"LXA", "Immediate">>
    [] opcode = \hCB -> <<"SBX", "Immediate">>
    [] opcode \in {\h1A, \h3A, \h5A, \h7A, \hDA, \hEA, \hFA} -> <<"NoOperation", "Implied">>
    [] opcode \in {\h04, \h44, \h64, \h89} -> <<"NoOperation", "ZeroPage">>
    [] opcode \in {\h80, \h82, \hC2, \hE2} -> <<"NoOperation", "Immediate">>
    [] opcode \in {\h14, \h34, \h54, \h74, \hD4, \hF4} -> <<"NoOperation", "ZeroPageX">>
    [] opcode = \h0C -> <<"NoOperation", "Absolute">>
    [] opcode \in {\h1C, \h3C, \h5C, \h7C, \hDC, \hFC} -> <<"NoOperation", "AbsoluteX">>
    [] opcode \in {\h02, \h12, \h22, \h32, \h42, \h52, \h62, \h72, \h92, \hB2, \hD2, \hF2} -> <<"JAM", "Implied">>
    [] opcode = \h00 -> <<"ForceBreak", "Implied">>
    [] OTHER -> <<"MissingOperation", "Implied">>

\* the decoder tabulated once for the executor
DecodeTable == [opcode \in Byte |-> decode_instruction(opcode)]

encode_instructions(instruction, addressing_mode) ==
  LET pair == <<instruction, addressing_mode>> IN
  CASE pair = <<"SetInterruptDisable", "Implied">> -> \h78
    [] pair = <<"ClearDecimalMode", "Implied">> -> \hD8
    [] pair = <<"LoadAccumulator", "Immediate">> -> \hA9
    [] pair = <<"StoreAccumulator", "Absolute">> -> \h8D
    [] pair = <<"LoadX", "Immediate">> -> \hA2
    [] pair = <<"MoveXToStackPointer", "Implied">> -> \h9A
    [] pair = <<"LoadAccumulator", "Absolute">> -> \hAD
    [] pair = <<"BranchOnResultPlus", "Relative">> -> \h10
    [] pair = <<"LoadY", "Immediate">> -> \hA0
    [] pair = <<"LoadAccumulator", "AbsoluteX">> -> \hBD
    [] pair = <<"CompareAccumulator", "Immediate">> -> \hC9
    [] pair = <<"BranchOnCarrySet", "Relative">> -> \hB0
    [] pair = <<"DecrementX", "Implied">> -> \hCA
    [] pair = <<"DecrementY", "Implied">> -> \h88
    [] pair = <<"BranchOnResultNotZero", "Relative">> -> \hD0
    [] pair = <<"JumpSubroutine", "Absolute">> -> \h20
    [] pair = <<"IncrementMem", "Absolute">> -> \hEE
    [] pair = <<"ORAccumulator", "Immediate">> -> \h09
    [] pair = <<"Jump", "Absolute">> -> \h4C
    [] pair = <<"Jump", "Indirect">> -> \h6C
    [] pair = <<"ORAccumulator", "XIndirect">> -> \h01
    [] pair = <<"ORAccumulator", "YIndirect">> -> \h11
    [] pair = <<"IncrementY", "Implied">> -> \hC8
    [] pair = <<"CompareX", "Absolute">> -> \hEC
    [] pair = <<"EORAccumulator", "XIndirect">> -> \h41
    [] pair = <<"PullAccumulatorFromStack", "Implied">> -> \h68
    [] pair = <<"DecrementMem", "AbsoluteX">> -> \hDE
    [] pair = <<"StoreX", "Absolute">> -> \h8E
    [] pair = <<"StoreY", "Absolute">> -> \h8C
    [] pair = <<"ANDAccumulator", "Immediate">> -> \h29
    [] pair = <<"LoadY", "Absolute">> -> \hAC
    [] pair = <<"LoadX", "Absolute">> -> \hAE
    [] pair = <<"StoreAccumulator", "ZeroPage">> -> \h85
    [] pair = <<"CompareX", "Immediate">> -> \hE0
    [] pair = <<"LoadX", "AbsoluteY">> -> \hBE
    [] pair = <<"StoreAccumulator", "AbsoluteX">> -> \h9D
    [] pair = <<"ShiftOneRight", "Accumulator">> -> \h4A
    [] pair = <<"BranchOnResultZero", "Relative">> -> \hF0
    [] pair = <<"DecrementMem", "ZeroPage">> -> \hC6
    [] pair = <<"DecrementMem", "Absolute">> -> \hCE
    [] pair = <<"IncrementMem", "ZeroPage">> -> \hE6
    [] pair = <<"IncrementMem", "ZeroPageX">> -> \hF6
    [] pair = <<"EORAccumulator", "ZeroPage">> -> \h45
    [] pair = <<"ClearCarry", "Implied">> -> \h18
    [] pair = <<"SetCarry", "Implied">> -> \h38
    [] pair = <<"RotateOneRight", "AbsoluteX">> -> \h7E
    [] pair = <<"IncrementX", "Implied">> -> \hE8
    [] pair = <<"PushAccumulatorOnStack", "Implied">> -> \h48
    [] pair = <<"ReturnFromInterrupt", "Implied">> -> \h40
    [] pair = <<"ReturnFromSubroutine", "Implied">> -> \h60
    [] pair = <<"TransferAccumulatorToY", "Implied">> -> \hA8
    [] pair = <<"StoreY", "ZeroPage">> -> \h84
    [] pair = <<"EORAccumulator", "Immediate">> -> \h49
    [] pair = <<"CompareAccumulator", "ZeroPage">> -> \hC5
    [] pair = <<"BranchOnCarryClear", "Relative">> -> \h90
    [] pair = <<"AddMemToAccumulatorWithCarry", "AbsoluteY">> -> \h79
    [] pair = <<"AddMemToAccumulatorWithCarry", "ZeroPage">> -> \h65
    [] pair = <<"LoadAccumulator", "AbsoluteY">> -> \hB9
    [] pair = <<"AddMemToAccumulatorWithCarry", "Immediate">> -> \h69
    [] pair = <<"ANDAccumulator", "YIndirect">> -> \h31
    [] pair = <<"TestBitsAccumulator", "Absolute">> -> \h2C
    [] pair = <<"TestBitsAccumulator", "ZeroPage">> -> \h24
    [] pair = <<"StoreAccumulator", "AbsoluteY">> -> \h99
    [] pair = <<"ORAccumulator", "Absolute">> -> \h0D
    [] pair = <<"CompareY", "Immediate">> -> \hC0
    [] pair = <<"TransferXToAccumulator", "Immediate">> -> \h8A
    [] pair = <<"BranchOnResultMinus", "Relative">> -> \h30
    [] pair = <<"LoadAccumulator", "ZeroPage">> -> \hA5
    [] pair = <<"ShiftOneLeft", "Accumulator">> -> \h0A
    [] pair = <<"StoreAccumulator", "XIndirect">> -> \h81
    [] pair = <<"CompareAccumulator", "XIndirect">> -> \hC1
    [] pair = <<"ORAccumulator", "ZeroPage">> -> \h05
    [] pair = <<"PullProcessorStatusFromStack", "Implied">> -> \h28
    [] pair = <<"StoreX", "ZeroPage">> -> \h86
    [] pair = <<"LoadY", "ZeroPageX">> -> \hB4
    [] pair = <<"TransferYToAccumulator", "Implied">> -> \h98
    [] pair = <<"SubtractAccumulatorWithBorrow", "Immediate">> -> \hE9
    [] pair = <<"SetDecimalMode", "Implied">> -> \hF8
    [] pair = <<"BranchOnOverflowClear", "Relative">> -> \h50
    [] pair = <<"IncrementMem", "AbsoluteX">> -> \hFE
    [] pair = <<"TransferAccumulatorToX", "Implied">> -> \hAA
    [] pair = <<"LoadY", "AbsoluteX">> -> \hBC
    [] pair = <<"LoadX", "ZeroPage">> -> \hA6
    [] pair = <<"LoadAccumulator", "ZeroPageX">> -> \hB5
    [] pair = <<"ORAccumulator", "AbsoluteY">> -> \h19
    [] pair = <<"BranchOnOverflowSet", "Relative">> -> \h70
    [] pair = <<"ShiftOneLeft", "ZeroPageX">> -> \h16
    [] pair = <<"StoreAccumulator", "YIndirect">> -> \h91
    [] pair = <<"ORAccumulator", "ZeroPageX">> -> \h15
    [] pair = <<"ORAccumulator", "AbsoluteX">> -> \h1D
    [] pair = <<"ShiftOneLeft", "Absolute">> -> \h0E
    [] pair = <<"RotateOneLeft", "Absolute">> -> \h2E
    [] pair = <<"ANDAccumulator", "XIndirect">> -> \h21
    [] pair = <<"CompareAccumulator", "Absolute">> -> \hCD
    [] pair = <<"ANDAccumulator", "ZeroPage">> -> \h25
    [] pair = <<"RotateOneLeft", "ZeroPage">> -> \h26
    [] pair = <<"RotateOneLeft", "ZeroPageX">> -> \h36
    [] pair = <<"ShiftOneRight", "ZeroPage">> -> \h46
    [] pair = <<"ShiftOneRight", "ZeroPageX">> -> \h56
    [] pair = <<"ANDAccumulator", "Absolute">> -> \h2D
    [] pair = <<"ANDAccumulator", "AbsoluteX">> -> \h3D
    [] pair = <<"ANDAccumulator", "AbsoluteY">> -> \h39
    [] pair = <<"PushProcessorStatusOnStack", "Implied">> -> \h08
    [] pair = <<"EORAccumulator", "AbsoluteX">> -> \h5D
    [] pair = <<"EORAccumulator", "AbsoluteY">> -> \h59
    [] pair = <<"RotateOneRight", "Absolute">> -> \h6E
    [] pair = <<"RotateOneLeft", "Accumulator">> -> \h2A
    [] pair = <<"ShiftOneLeft", "ZeroPage">> -> \h06
    [] pair = <<"LoadAccumulator", "XIndirect">> -> \hA1
    [] pair = <<"LoadAccumulator", "YIndirect">> -> \hB1
    [] pair = <<"LoadY", "ZeroPage">> -> \hA4
    [] pair = <<"ShiftOneRight", "Absolute">> -> \h4E
    [] pair = <<"ANDAccumulator", "ZeroPageX">> -> \h35
    [] pair = <<"TransferStackPointerToX", "Implied">> -> \hBA
    [] pair = <<"RotateOneRight", "ZeroPage">> -> \h66
    [] pair = <<"RotateOneRight", "Accumulator">> -> \h6A
    [] pair = <<"EORAccumulator", "Absolute">> -> \h4D
    [] pair = <<"EORAccumulator", "YIndirect">> -> \h51
    [] pair = <<"AddMemToAccumulatorWithCarry", "Absolute">> -> \h6D
    [] pair = <<"AddMemToAccumulatorWithCarry", "XIndirect">> -> \h61
    [] pair = <<"AddMemToAccumulatorWithCarry", "YIndirect">> -> \h71
    [] pair = <<"RotateOneRight", "ZeroPageX">> -> \h76
    [] pair = <<"LoadX", "ZeroPageY">> -> \hB6
    [] pair = <<"ShiftOneRight", "AbsoluteX">> -> \h5E
    [] pair = <<"CompareY", "Absolute">> -> \hCC
    [] pair = <<"ClearInterruptDisable", "Implied">> -> \h58
    [] pair = <<"ShiftOneLeft", "AbsoluteX">> -> \h1E
    [] pair = <<"SubtractAccumulatorWithBorrow", "AbsoluteY">> -> \hF9
    [] pair = <<"EORAccumulator", "ZeroPageX">> -> \h55
    [] pair = <<"CompareAccumulator", "YIndirect">> -> \hD1
    [] pair = <<"SubtractAccumulatorWithBorrow", "AbsoluteX">> -> \hFD
    [] pair = <<"StoreAccumulator", "ZeroPageX">> -> \h95
    [] pair = <<"CompareAccumulator", "AbsoluteY">> -> \hD9
    [] pair = <<"StoreX", "ZeroPageY">> -> \h96
    [] pair = <<"StoreY", "ZeroPageX">> -> \h94
    [] pair = <<"CompareAccumulator", "AbsoluteX">> -> \hDD
    [] pair = <<"ClearOverflow", "Implied">> -> \hB8
    [] pair = <<"DecrementMem", "ZeroPageX">> -> \hD6
    [] pair = <<"CompareY", "ZeroPage">> -> \hC4
    [] pair = <<"AddMemToAccumulatorWithCarry", "AbsoluteX">> -> \h7D
    [] pair = <<"AddMemToAccumulatorWithCarry", "ZeroPageX">> -> \h75
    [] pair = <<"CompareX", "ZeroPage">> -> \hE4
    [] pair = <<"CompareAccumulator", "ZeroPageX">> -> \hD5
    [] pair = <<"SubtractAccumulatorWithBorrow", "Absolute">> -> \hED
    [] pair = <<"SubtractAccumulatorWithBorrow", "ZeroPage">> -> \hE5
    [] pair = <<"SubtractAccumulatorWithBorrow", "ZeroPageX">> -> \hF5
    [] pair = <<"SubtractAccumulatorWithBorrow", "XIndirect">> -> \hE1
    [] pair = <<"SubtractAccumulatorWithBorrow", "YIndirect">> -> \hF1
    [] pair = <<"RotateOneLeft", "AbsoluteX">> -> \h3E
    [] pair = <<"SLO", "XIndirect">> -> \h03
    [] pair = <<"SLO", "ZeroPage">> -> \h07
    [] pair = <<"SLO", "YIndirect">> -> \h13
    [] pair = <<"SLO", "ZeroPageX">> -> \h17
    [] pair = <<"SLO", "AbsoluteX">> -> \h1F
    [] pair = <<"SLO", "Absolute">> -> \h0F
    [] pair = <<"SLO", "AbsoluteY">> -> \h1B
    [] pair = <<"ISC", "ZeroPage">> -> \hE7
    [] pair = <<"ISC", "YIndirect">> -> \hF3
    [] pair = <<"ISC", "XIndirect">> -> \hE3
    [] pair = <<"ISC", "Absolute">> -> \hEF
    [] pair = <<"ISC", "AbsoluteY">> -> \hFB
    [] pair = <<"ISC", "AbsoluteX">> -> \hFF
    [] pair = <<"ISC", "ZeroPageX">> -> \hF7
    [] pair = <<"RLA", "ZeroPage">> -> \h27
    [] pair = <<"RLA", "XIndirect">> -> \h23
    \* (RLA, ZeroPage) => 0x37 : unreachable, an earlier arm matches the same pair
    [] pair = <<"RLA", "Absolute">> -> \h2F
    [] pair = <<"RLA", "AbsoluteY">> -> \h3B
    [] pair = <<"RLA", "YIndirect">> -> \h33
    [] pair = <<"RLA", "AbsoluteX">> -> \h3F
    [] pair = <<"RRA", "ZeroPage">> -> \h67
    [] pair = <<"RRA", "XIndirect">> -> \h63
    [] pair = <<"RRA", "AbsoluteX">> -> \h7F
    [] pair = <<"RRA", "AbsoluteY">> -> \h7B
    [] pair = <<"RRA", "YIndirect">> -> \h73
    [] pair = <<"RRA", "Absolute">> -> \h6F
    [] pair = <<"RRA", "ZeroPageX">> -> \h77
    [] pair = <<"LAX", "XIndirect">> -> \hA3
    [] pair = <<"LAX", "ZeroPage">> -> \hA7
    [] pair = <<"LAX", "Absolute">> -> \hAF
    [] pair = <<"LAX", "AbsoluteY">> -> \hBF
    [] pair = <<"LAX", "ZeroPageY">> -> \hB7
    [] pair = <<"LAX", "YIndirect">> -> \hB3
    [] pair = <<"SRE", "AbsoluteY">> -> \h5B
    [] pair = <<"SRE", "XIndirect">> -> \h43
    [] pair = <<"SRE", "YIndirect">> -> \h53
    [] pair = <<"SRE", "AbsoluteX">> -> \h5F
    [] pair = <<"SRE", "Absolute">> -> \h4F
    [] pair = <<"SRE", "ZeroPage">> -> \h47
    [] pair = <<"SRE", "ZeroPageX">> -> \h57
    [] pair = <<"DCP", "XIndirect">> -> \hC3
    [] pair = <<"DCP", "YIndirect">> -> \hD3
    [] pair = <<"DCP", "AbsoluteY">> -> \hDB
    [] pair = <<"DCP", "ZeroPage">> -> \hC7
    [] pair = <<"DCP", "ZeroPageX">> -> \hD7
    [] pair = <<"DCP", "AbsoluteX">> -> \hDF
    [] pair = <<"DCP", "Absolute">> -> \hCF
    [] pair = <<"USBC", "Immediate">> -> \hEB
    [] pair = <<"SAX", "ZeroPageY">> -> \h97
    [] pair = <<"SAX", "Absolute">> -> \h8F
    [] pair = <<"SAX", "XIndirect">> -> \h83
    [] pair = <<"ARR", "Immediate">> -> \h6B
    [] pair = <<"ALR", "Immediate">> -> \h4B
    [] pair = <<"SHX", "AbsoluteY">> -> \h9E
    [] pair = <<"SHY", "AbsoluteX">> -> \h9C
    [] pair = <<"SHA", "AbsoluteY">> -> \h9F
    [] pair = <<"SHA", "YIndirect">> -> \h93
    [] pair = <<"ANC", "Immediate">> -> \h2B
    \* (ANC, Immediate) => 0x0B : unreachable, an earlier arm matches the same pair
    [] pair = <<"ANE", "Immediate">> -> \h8B
    [] pair = <<"SAX", "ZeroPage">> -> \h87
    [] pair = <<"TAS", "AbsoluteY">> -> \h9B
    [] pair = <<"LAS", "AbsoluteY">> -> \hBB
    [] pair = <<"LXA", "Immediate">> -> \hAB
    [] pair = <<"SBX", "Immediate">> -> \hCB
    [] pair = <<"NoOperation", "Implied">> -> \h1A
    [] pair = <<"NoOperation", "ZeroPage">> -> \h04
    [] pair = <<"NoOperation", "Immediate">> -> \h80
    [] pair = <<"NoOperation", "ZeroPageX">> -> \h14
    [] pair = <<"NoOperation", "Absolute">> -> \h0C
    [] pair = <<"NoOperation", "AbsoluteX">> -> \h1C
    [] pair = <<"JAM", "Implied">> -> \h02
    [] pair = <<"ForceBreak", "Implied">> -> \h00
    [] OTHER -> \h02

(***************************************************************************)
(* The decoder and the encoder (claims C1 to C4), checked under SpecDecode *)
(***************************************************************************)
\* the pairs encode_instructions has an explicit arm for
EncoderArms ==
  { <<"ALR", "Immediate">>,
    <<"ANC", "Immediate">>,
    <<"ANDAccumulator", "Absolute">>,
    <<"ANDAccumulator", "AbsoluteX">>,
    <<"ANDAccumulator", "AbsoluteY">>,
    <<"ANDAccumulator", "Immediate">>,
    <<"ANDAccumulator", "XIndirect">>,
    <<"ANDAccumulator", "YIndirect">>,
    <<"ANDAccumulator", "ZeroPage">>,
    <<"ANDAccumulator", "ZeroPageX">>,
    <<"ANE", "Immediate">>,
    <<"ARR", "Immediate">>,
    <<"AddMemToAccumulatorWithCarry", "Absolute">>,
    <<"AddMemToAccumulatorWithCarry", "AbsoluteX">>,
    <<"AddMemToAccumulatorWithCarry", "AbsoluteY">>,
    <<"AddMemToAccumulatorWithCarry", "Immediate">>,
    <<"AddMemToAccumulatorWithCarry", "XIndirect">>,
    <<"AddMemToAccumulatorWithCarry", "YIndirect">>,
    <<"AddMemToAccumulatorWithCarry", "ZeroPage">>,
    <<"AddMemToAccumulatorWithCarry", "ZeroPageX">>,
    <<"BranchOnCarryClear", "Relative">>,
    <<"BranchOnCarrySet", "Relative">>,
    <<"BranchOnOverflowClear", "Relative">>,
    <<"BranchOnOverflowSet", "Relative">>,
    <<"BranchOnResultMinus", "Relative">>,
    <<"BranchOnResultNotZero", "Relative">>,
    <<"BranchOnResultPlus", "Relative">>,
    <<"BranchOnResultZero", "Relative">>,
    <<"ClearCarry", "Implied">>,
    <<"ClearDecimalMode", "Implied">>,
    <<"ClearInterruptDisable", "Implied">>,
    <<"ClearOverflow", "Implied">>,
    <<"CompareAccumulator", "Absolute">>,
    <<"CompareAccumulator", "AbsoluteX">>,
    <<"CompareAccumulator", "AbsoluteY">>,
    <<"CompareAccumulator", "Immediate">>,
    <<"CompareAccumulator", "XIndirect">>,
    <<"CompareAccumulator", "YIndirect">>,
    <<"CompareAccumulator", "ZeroPage">>,
    <<"CompareAccumulator", "ZeroPageX">>,
    <<"CompareX", "Absolute">>,
    <<"CompareX", "Immediate">>,
    <<"CompareX", "ZeroPage">>,
    <<"CompareY", "Absolute">>,
    <<"CompareY", "Immediate">>,
    <<"CompareY", "ZeroPage">>,
    <<"DCP", "Absolute">>,
    <<"DCP", "AbsoluteX">>,
    <<"DCP", "AbsoluteY">>,
    <<"DCP", "XIndirect">>,
    <<"DCP", "YIndirect">>,
    <<"DCP", "ZeroPage">>,
    <<"DCP", "ZeroPageX">>,
    <<"DecrementMem", "Absolute">>,
    <<"DecrementMem", "AbsoluteX">>,
    <<"DecrementMem", "ZeroPage">>,
    <<"DecrementMem", "ZeroPageX">>,
    <<"DecrementX", "Implied">>,
    <<"DecrementY", "Implied">>,
    <<"EORAccumulator", "Absolute">>,
    <<"EORAccumulator", "AbsoluteX">>,
    <<"EORAccumulator", "AbsoluteY">>,
    <<"EORAccumulator", "Immediate">>,
    <<"EORAccumulator", "XIndirect">>,
    <<"EORAccumulator", "YIndirect">>,
    <<"EORAccumulator", "ZeroPage">>,
    <<"EORAccumulator", "ZeroPageX">>,
    <<"ForceBreak", "Implied">>,
    <<"ISC", "Absolute">>,
    <<"ISC", "AbsoluteX">>,
    <<"ISC", "AbsoluteY">>,
    <<"ISC", "XIndirect">>,
    <<"ISC", "YIndirect">>,
    <<"ISC", "ZeroPage">>,
    <<"ISC", "ZeroPageX">>,
    <<"IncrementMem", "Absolute">>,
    <<"IncrementMem", "AbsoluteX">>,
    <<"IncrementMem", "ZeroPage">>,
    <<"IncrementMem", "ZeroPageX">>,
    <<"IncrementX", "Implied">>,
    <<"IncrementY", "Implied">>,
    <<"JAM", "Implied">>,
    <<"Jump", "Absolute">>,
    <<"Jump", "Indirect">>,
    <<"JumpSubroutine", "Absolute">>,
    <<"LAS", "AbsoluteY">>,
    <<"LAX", "Absolute">>,
    <<"LAX", "AbsoluteY">>,
    <<"LAX", "XIndirect">>,
    <<"LAX", "YIndirect">>,
    <<"LAX", "ZeroPage">>,
    <<"LAX", "ZeroPageY">>,
    <<"LXA", "Immediate">>,
    <<"LoadAccumulator", "Absolute">>,
    <<"LoadAccumulator", "AbsoluteX">>,
    <<"LoadAccumulator", "AbsoluteY">>,
    <<"LoadAccumulator", "Immediate">>,
    <<"LoadAccumulator", "XIndirect">>,
    <<"LoadAccumulator", "YIndirect">>,
    <<"LoadAccumulator", "ZeroPage">>,
    <<"LoadAccumulator", "ZeroPageX">>,
    <<"LoadX", "Absolute">>,
    <<"LoadX", "AbsoluteY">>,
    <<"LoadX", "Immediate">>,
    <<"LoadX", "ZeroPage">>,
    <<"LoadX", "ZeroPageY">>,
    <<"LoadY", "Absolute">>,
    <<"LoadY", "AbsoluteX">>,
    <<"LoadY", "Immediate">>,
    <<"LoadY", "ZeroPage">>,
    <<"LoadY", "ZeroPageX">>,
    <<"MoveXToStackPointer", "Implied">>,
    <<"NoOperation", "Absolute">>,
    <<"NoOperation", "AbsoluteX">>,
    <<"NoOperation", "Immediate">>,
    <<"NoOperation", "Implied">>,
    <<"NoOperation", "ZeroPage">>,
    <<"NoOperation", "ZeroPageX">>,
    <<"ORAccumulator", "Absolute">>,
    <<"ORAccumulator", "AbsoluteX">>,
    <<"ORAccumulator", "AbsoluteY">>,
    <<"ORAccumulator", "Immediate">>,
    <<"ORAccumulator", "XIndirect">>,
    <<"ORAccumulator", "YIndirect">>,
    <<"ORAccumulator", "ZeroPage">>,
    <<"ORAccumulator", "ZeroPageX">>,
    <<"PullAccumulatorFromStack", "Implied">>,
    <<"PullProcessorStatusFromStack", "Implied">>,
    <<"PushAccumulatorOnStack", "Implied">>,
    <<"PushProcessorStatusOnStack", "Implied">>,
    <<"RLA", "Absolute">>,
    <<"RLA", "AbsoluteX">>,
    <<"RLA", "AbsoluteY">>,
    <<"RLA", "XIndirect">>,
    <<"RLA", "YIndirect">>,
    <<"RLA", "ZeroPage">>,
    <<"RRA", "Absolute">>,
    <<"RRA", "AbsoluteX">>,
    <<"RRA", "AbsoluteY">>,
    <<"RRA", "XIndirect">>,
    <<"RRA", "YIndirect">>,
    <<"RRA", "ZeroPage">>,
    <<"RRA", "ZeroPageX">>,
    <<"ReturnFromInterrupt", "Implied">>,
    <<"ReturnFromSubroutine", "Implied">>,
    <<"RotateOneLeft", "Absolute">>,
    <<"RotateOneLeft", "AbsoluteX">>,
    <<"RotateOneLeft", "Accumulator">>,
    <<"RotateOneLeft", "ZeroPage">>,
    <<"RotateOneLeft", "ZeroPageX">>,
    <<"RotateOneRight", "Absolute">>,
    <<"RotateOneRight", "AbsoluteX">>,
    <<"RotateOneRight", "Accumulator">>,
    <<"RotateOneRight", "ZeroPage">>,
    <<"RotateOneRight", "ZeroPageX">>,
    <<"SAX", "Absolute">>,
    <<"SAX", "XIndirect">>,
    <<"SAX", "ZeroPage">>,
    <<"SAX", "ZeroPageY">>,
    <<"SBX", "Immediate">>,
    <<"SHA", "AbsoluteY">>,
    <<"SHA", "YIndirect">>,
    <<"SHX", "AbsoluteY">>,
    <<"SHY", "AbsoluteX">>,
    <<"SLO", "Absolute">>,
    <<"SLO", "AbsoluteX">>,
    <<"SLO", "AbsoluteY">>,
    <<"SLO", "XIndirect">>,
    <<"SLO", "YIndirect">>,
    <<"SLO", "ZeroPage">>,
    <<"SLO", "ZeroPageX">>,
    <<"SRE", "Absolute">>,
    <<"SRE", "AbsoluteX">>,
    <<"SRE", "AbsoluteY">>,
    <<"SRE", "XIndirect">>,
    <<"SRE", "YIndirect">>,
    <<"SRE", "ZeroPage">>,
    <<"SRE", "ZeroPageX">>,
    <<"SetCarry", "Implied">>,
    <<"SetDecimalMode", "Implied">>,
    <<"SetInterruptDisable", "Implied">>,
    <<"ShiftOneLeft", "Absolute">>,
    <<"ShiftOneLeft", "AbsoluteX">>,
    <<"ShiftOneLeft", "Accumulator">>,
    <<"ShiftOneLeft", "ZeroPage">>,
    <<"ShiftOneLeft", "ZeroPageX">>,
    <<"ShiftOneRight", "Absolute">>,
    <<"ShiftOneRight", "AbsoluteX">>,
    <<"ShiftOneRight", "Accumulator">>,
    <<"ShiftOneRight", "ZeroPage">>,
    <<"ShiftOneRight", "ZeroPageX">>,
    <<"StoreAccumulator", "Absolute">>,
    <<"StoreAccumulator", "AbsoluteX">>,
    <<"StoreAccumulator", "AbsoluteY">>,
    <<"StoreAccumulator", "XIndirect">>,
    <<"StoreAccumulator", "YIndirect">>,
    <<"StoreAccumulator", "ZeroPage">>,
    <<"StoreAccumulator", "ZeroPageX">>,
    <<"StoreX", "Absolute">>,
    <<"StoreX", "ZeroPage">>,
    <<"StoreX", "ZeroPageY">>,
    <<"StoreY", "Absolute">>,
    <<"StoreY", "ZeroPage">>,
    <<"StoreY", "ZeroPageX">>,
    <<"SubtractAccumulatorWithBorrow", "Absolute">>,
    <<"SubtractAccumulatorWithBorrow", "AbsoluteX">>,
    <<"SubtractAccumulatorWithBorrow", "AbsoluteY">>,
    <<"SubtractAccumulatorWithBorrow", "Immediate">>,
    <<"SubtractAccumulatorWithBorrow", "XIndirect">>,
    <<"SubtractAccumulatorWithBorrow", "YIndirect">>,
    <<"SubtractAccumulatorWithBorrow", "ZeroPage">>,
    <<"SubtractAccumulatorWithBorrow", "ZeroPageX">>,
    <<"TAS", "AbsoluteY">>,
    <<"TestBitsAccumulator", "Absolute">>,
    <<"TestBitsAccumulator", "ZeroPage">>,
    <<"TransferAccumulatorToX", "Implied">>,
    <<"TransferAccumulatorToY", "Implied">>,
    <<"TransferStackPointerToX", "Implied">>,
    <<"TransferXToAccumulator", "Immediate">>,
    <<"TransferYToAccumulator", "Implied">>,
    <<"USBC", "Immediate">> }

\* the pairs decode_instruction returns for some byte
DecodablePairs == { DecodeTable[b] : b \in Byte }

\* the bytes decode_instruction maps to (JAM, Implied)
JamBytes == { b \in Byte : DecodeTable[b] = <<"JAM", "Implied">> }

\* the standard 6502 opcode matrix: the 151 official opcodes, with the
\* operation and the addressing mode the reference documents for each
OfficialOpcodes ==
  { \h00, \h01, \h05, \h06, \h08, \h09, \h0A, \h0D, \h0E, \h10, \h11, \h15,
    \h16, \h18, \h19, \h1D, \h1E, \h20, \h21, \h24, \h25, \h26, \h28, \h29,
    \h2A, \h2C, \h2D, \h2E, \h30, \h31, \h35, \h36, \h38, \h39, \h3D, \h3E,
    \h40, \h41, \h45, \h46, \h48, \h49, \h4A, \h4C, \h4D, \h4E, \h50, \h51,
    \h55, \h56, \h58, \h59, \h5D, \h5E, \h60, \h61, \h65, \h66, \h68, \h69,
    \h6A, \h6C, \h6D, \h6E, \h70, \h71, \h75, \h76, \h78, \h79, \h7D, \h7E,
    \h81, \h84, \h85, \h86, \h88, \h8A, \h8C, \h8D, \h8E, \h90, \h91, \h94,
    \h95, \h96, \h98, \h99, \h9A, \h9D, \hA0, \hA1, \hA2, \hA4, \hA5, \hA6,
    \hA8, \hA9, \hAA, \hAC, \hAD, \hAE, \hB0, \hB1, \hB4, \hB5, \hB6, \hB8,
    \hB9, \hBA, \hBC, \hBD, \hBE, \hC0, \hC1, \hC4, \hC5, \hC6, \hC8, \hC9,
    \hCA, \hCC, \hCD, \hCE, \hD0, \hD1, \hD5, \hD6, \hD8, \hD9, \hDD, \hDE,
    \hE0, \hE1, \hE4, \hE5, \hE6, \hE8, \hE9, \hEA, \hEC, \hED, \hEE, \hF0,
    \hF1, \hF5, \hF6, \hF8, \hF9, \hFD, \hFE }
OfficialMatrix(b) ==
  CASE b = \h00 -> <<"ForceBreak", "Implied">>
    [] b = \h01 -> <<"ORAccumulator", "XIndirect">>
    [] b = \h05 -> <<"ORAccumulator", "ZeroPage">>
    [] b = \h06 -> <<"ShiftOneLeft", "ZeroPage">>
    [] b = \h08 -> <<"PushProcessorStatusOnStack", "Implied">>
    [] b = \h09 -> <<"ORAccumulator", "Immediate">>
    [] b = \h0A -> <<"ShiftOneLeft", "Accumulator">>
    [] b = \h0D -> <<"ORAccumulator", "Absolute">>
    [] b = \h0E -> <<"ShiftOneLeft", "Absolute">>
    [] b = \h10 -> <<"BranchOnResultPlus", "Relative">>
    [] b = \h11 -> <<"ORAccumulator", "YIndirect">>
    [] b = \h15 -> <<"ORAccumulator", "ZeroPageX">>
    [] b = \h16 -> <<"ShiftOneLeft", "ZeroPageX">>
    [] b = \h18 -> <<"ClearCarry", "Implied">>
    [] b = \h19 -> <<"ORAccumulator", "AbsoluteY">>
    [] b = \h1D -> <<"ORAccumulator", "AbsoluteX">>
    [] b = \h1E -> <<"ShiftOneLeft", "AbsoluteX">>
    [] b = \h20 -> <<"JumpSubroutine", "Absolute">>
    [] b = \h21 -> <<"ANDAccumulator", "XIndirect">>
    [] b = \h24 -> <<"TestBitsAccumulator", "ZeroPage">>
    [] b = \h25 -> <<"ANDAccumulator", "ZeroPage">>
    [] b = \h26 -> <<"RotateOneLeft", "ZeroPage">>
    [] b = \h28 -> <<"PullProcessorStatusFromStack", "Implied">>
    [] b = \h29 -> <<"ANDAccumulator", "Immediate">>
    [] b = \h2A -> <<"RotateOneLeft", "Accumulator">>
    [] b = \h2C -> <<"TestBitsAccumulator", "Absolute">>
    [] b = \h2D -> <<"ANDAccumulator", "Absolute">>
    [] b = \h2E -> <<"RotateOneLeft", "Absolute">>
    [] b = \h30 -> <<"BranchOnResultMinus", "Relative">>
    [] b = \h31 -> <<"ANDAccumulator", "YIndirect">>
    [] b = \h35 -> <<"ANDAccumulator", "ZeroPageX">>
    [] b = \h36 -> <<"RotateOneLeft", "ZeroPageX">>
    [] b = \h38 -> <<"SetCarry", "Implied">>
    [] b = \h39 -> <<"ANDAccumulator", "AbsoluteY">>
    [] b = \h3D -> <<"ANDAccumulator", "AbsoluteX">>
    [] b = \h3E -> <<"RotateOneLeft", "AbsoluteX">>
    [] b = \h40 -> <<"ReturnFromInterrupt", "Implied">>
    [] b = \h41 -> <<"EORAccumulator", "XIndirect">>
    [] b = \h45 -> <<"EORAccumulator", "ZeroPage">>
    [] b = \h46 -> <<"ShiftOneRight", "ZeroPage">>
    [] b = \h48 -> <<"PushAccumulatorOnStack", "Implied">>
    [] b = \h49 -> <<"EORAccumulator", "Immediate">>
    [] b = \h4A -> <<"ShiftOneRight", "Accumulator">>
    [] b = \h4C -> <<"Jump", "Absolute">>
    [] b = \h4D -> <<"EORAccumulator", "Absolute">>
    [] b = \h4E -> <<"ShiftOneRight", "Absolute">>
    [] b = \h50 -> <<"BranchOnOverflowClear", "Relative">>
    [] b = \h51 -> <<"EORAccumulator", "YIndirect">>
    [] b = \h55 -> <<"EORAccumulator", "ZeroPageX">>
    [] b = \h56 -> <<"ShiftOneRight", "ZeroPageX">>
    [] b = \h58 -> <<"ClearInterruptDisable", "Implied">>
    [] b = \h59 -> <<"EORAccumulator", "AbsoluteY">>
    [] b = \h5D -> <<"EORAccumulator", "AbsoluteX">>
    [] b = \h5E -> <<"ShiftOneRight", "AbsoluteX">>
    [] b = \h60 -> <<"ReturnFromSubroutine", "Implied">>
    [] b = \h61 -> <<"AddMemToAccumulatorWithCarry", "XIndirect">>
    [] b = \h65 -> <<"AddMemToAccumulatorWithCarry", "ZeroPage">>
    [] b = \h66 -> <<"RotateOneRight", "ZeroPage">>
    [] b = \h68 -> <<"PullAccumulatorFromStack", "Implied">>
    [] b = \h69 -> <<"AddMemToAccumulatorWithCarry", "Immediate">>
    [] b = \h6A -> <<"RotateOneRight", "Accumulator">>
    [] b = \h6C -> <<"Jump", "Indirect">>
    [] b = \h6D -> <<"AddMemToAccumulatorWithCarry", "Absolute">>
    [] b = \h6E -> <<"RotateOneRight", "Absolute">>
    [] b = \h70 -> <<"BranchOnOverflowSet", "Relative">>
    [] b = \h71 -> <<"AddMemToAccumulatorWithCarry", "YIndirect">>
    [] b = \h75 -> <<"AddMemToAccumulatorWithCarry", "ZeroPageX">>
    [] b = \h76 -> <<"RotateOneRight", "ZeroPageX">>
    [] b = \h78 -> <<"SetInterruptDisable", "Implied">>
    [] b = \h79 -> <<"AddMemToAccumulatorWithCarry", "AbsoluteY">>
    [] b = \h7D -> <<"AddMemToAccumulatorWithCarry", "AbsoluteX">>
    [] b = \h7E -> <<"RotateOneRight", "AbsoluteX">>
    [] b = \h81 -> <<"StoreAccumulator", "XIndirect">>
    [] b = \h84 -> <<"StoreY", "ZeroPage">>
    [] b = \h85 -> <<"StoreAccumulator", "ZeroPage">>
    [] b = \h86 -> <<"StoreX", "ZeroPage">>
    [] b = \h88 -> <<"DecrementY", "Implied">>
    [] b = \h8A -> <<"TransferXToAccumulator", "Implied">>
    [] b = \h8C -> <<"StoreY", "Absolute">>
    [] b = \h8D -> <<"StoreAccumulator", "Absolute">>
    [] b = \h8E -> <<"StoreX", "Absolute">>
    [] b = \h90 -> <<"BranchOnCarryClear", "Relative">>
    [] b = \h91 -> <<"StoreAccumulator", "YIndirect">>
    [] b = \h94 -> <<"StoreY", "ZeroPageX">>
    [] b = \h95 -> <<"StoreAccumulator", "ZeroPageX">>
    [] b = \h96 -> <<"StoreX", "ZeroPageY">>
    [] b = \h98 -> <<"TransferYToAccumulator", "Implied">>
    [] b = \h99 -> <<"StoreAccumulator", "AbsoluteY">>
    [] b = \h9A -> <<"MoveXToStackPointer", "Implied">>
    [] b = \h9D -> <<"StoreAccumulator", "AbsoluteX">>
    [] b = \hA0 -> <<"LoadY", "Immediate">>
    [] b = \hA1 -> <<"LoadAccumulator", "XIndirect">>
    [] b = \hA2 -> <<"LoadX", "Immediate">>
    [] b = \hA4 -> <<"LoadY", "ZeroPage">>
    [] b = \hA5 -> <<"LoadAccumulator", "ZeroPage">>
    [] b = \hA6 -> <<"LoadX", "ZeroPage">>
    [] b = \hA8 -> <<"TransferAccumulatorToY", "Implied">>
    [] b = \hA9 -> <<"LoadAccumulator", "Immediate">>
    [] b = \hAA -> <<"TransferAccumulatorToX", "Implied">>
    [] b = \hAC -> <<"LoadY", "Absolute">>
    [] b = \hAD -> <<"LoadAccumulator", "Absolute">>
    [] b = \hAE -> <<"LoadX", "Absolute">>
    [] b = \hB0 -> <<"BranchOnCarrySet", "Relative">>
    [] b = \hB1 -> <<"LoadAccumulator", "YIndirect">>
    [] b = \hB4 -> <<"LoadY", "ZeroPageX">>
    [] b = \hB5 -> <<"LoadAccumulator", "ZeroPageX">>
    [] b = \hB6 -> <<"LoadX", "ZeroPageY">>
    [] b = \hB8 -> <<"ClearOverflow", "Implied">>
    [] b = \hB9 -> <<"LoadAccumulator", "AbsoluteY">>
    [] b = \hBA -> <<"TransferStackPointerToX", "Implied">>
    [] b = \hBC -> <<"LoadY", "AbsoluteX">>
    [] b = \hBD -> <<"LoadAccumulator", "AbsoluteX">>
    [] b = \hBE -> <<"LoadX", "AbsoluteY">>
    [] b = \hC0 -> <<"CompareY", "Immediate">>
    [] b = \hC1 -> <<"CompareAccumulator", "XIndirect">>
    [] b = \hC4 -> <<"CompareY", "ZeroPage">>
    [] b = \hC5 -> <<"CompareAccumulator", "ZeroPage">>
    [] b = \hC6 -> <<"DecrementMem", "ZeroPage">>
    [] b = \hC8 -> <<"IncrementY", "Implied">>
    [] b = \hC9 -> <<"CompareAccumulator", "Immediate">>
    [] b = \hCA -> <<"DecrementX", "Implied">>
    [] b = \hCC -> <<"CompareY", "Absolute">>
    [] b = \hCD -> <<"CompareAccumulator", "Absolute">>
    [] b = \hCE -> <<"DecrementMem", "Absolute">>
    [] b = \hD0 -> <<"BranchOnResultNotZero", "Relative">>
    [] b = \hD1 -> <<"CompareAccumulator", "YIndirect">>
    [] b = \hD5 -> <<"CompareAccumulator", "ZeroPageX">>
    [] b = \hD6 -> <<"DecrementMem", "ZeroPageX">>
    [] b = \hD8 -> <<"ClearDecimalMode", "Implied">>
    [] b = \hD9 -> <<"CompareAccumulator", "AbsoluteY">>
    [] b = \hDD -> <<"CompareAccumulator", "AbsoluteX">>
    [] b = \hDE -> <<"DecrementMem", "AbsoluteX">>
    [] b = \hE0 -> <<"CompareX", "Immediate">>
    [] b = \hE1 -> <<"SubtractAccumulatorWithBorrow", "XIndirect">>
    [] b = \hE4 -> <<"CompareX", "ZeroPage">>
    [] b = \hE5 -> <<"SubtractAccumulatorWithBorrow", "ZeroPage">>
    [] b = \hE6 -> <<"IncrementMem", "ZeroPage">>
    [] b = \hE8 -> <<"IncrementX", "Implied">>
    [] b = \hE9 -> <<"SubtractAccumulatorWithBorrow", "Immediate">>
    [] b = \hEA -> <<"NoOperation", "Implied">>
    [] b = \hEC -> <<"CompareX", "Absolute">>
    [] b = \hED -> <<"SubtractAccumulatorWithBorrow", "Absolute">>
    [] b = \hEE -> <<"IncrementMem", "Absolute">>
    [] b = \hF0 -> <<"BranchOnResultZero", "Relative">>
    [] b = \hF1 -> <<"SubtractAccumulatorWithBorrow", "YIndirect">>
    [] b = \hF5 -> <<"SubtractAccumulatorWithBorrow", "ZeroPageX">>
    [] b = \hF6 -> <<"IncrementMem", "ZeroPageX">>
    [] b = \hF8 -> <<"SetDecimalMode", "Implied">>
    [] b = \hF9 -> <<"SubtractAccumulatorWithBorrow", "AbsoluteY">>
    [] b = \hFD -> <<"SubtractAccumulatorWithBorrow", "AbsoluteX">>
    [] b = \hFE -> <<"IncrementMem", "AbsoluteX">>

\* the pair an encode_instructions call was given
CalledPair == <<call.instruction, call.addressing_mode>>

(***************************************************************************)
(* cpu.rs: registers and flags                                             *)
(***************************************************************************)
CPUFlags_new ==
  [ carry |-> FALSE, zero |-> FALSE, interrupt_disable |-> TRUE,
    decimal |-> FALSE, overflow |-> FALSE, negative |-> FALSE ]

Registers_new ==
  [ pc |-> 0, sp |-> \hFF, accumulator |-> 0, idx |-> 0, idy |-> 0,
    flags |-> CPUFlags_new ]

\* CPUFlags::set_byte
set_byte(byte) ==
  [ carry             |-> Bit(byte, 0) # 0,
    zero              |-> Bit(byte, 1) # 0,
    interrupt_disable |-> Bit(byte, 2) # 0,
    decimal           |-> Bit(byte, 3) # 0,
    overflow          |-> Bit(byte, 6) # 0,
    negative          |-> Bit(byte, 7) # 0 ]

\* an as_byte that leaves bits 5 and 4 clear
as_byte_without_break(flags) ==
    (IF flags.carry THEN \h01 ELSE 0)
  + (IF flags.zero THEN \h02 ELSE 0)
  + (IF flags.interrupt_disable THEN \h04 ELSE 0)
  + (IF flags.decimal THEN \h08 ELSE 0)
  + (IF flags.overflow THEN \h40 ELSE 0)
  + (IF flags.negative THEN \h80 ELSE 0)

\* CPUFlags::as_byte: bits 5 and 4 are always set
as_byte(flags) ==
    (IF flags.carry THEN \h01 ELSE 0)
  + (IF flags.zero THEN \h02 ELSE 0)
  + (IF flags.interrupt_disable THEN \h04 ELSE 0)
  + \h20
  + \h10
  + (IF flags.decimal THEN \h08 ELSE 0)
  + (IF flags.overflow THEN \h40 ELSE 0)
  + (IF flags.negative THEN \h80 ELSE 0)

\* NesCpu::new
NesCpu_new ==
  [ memory |-> Memory_new, reg |-> Registers_new, current |-> CurrentInstruction_new ]

(***************************************************************************)
(* cpu.rs: the helpers of NesCpu.  self is the record of memory, reg and   *)
(* current.  A helper that execute calls as a whole arm is an operator     *)
(* from self to the way the call ends: it returns with a new self, or the  *)
(* process ends.  The helpers the arms are built from (next, push_stack,   *)
(* pop_stack ...) are the operator h(self), the value of self when h       *)
(* returns, together with h_panics(self), TRUE when h panics instead.      *)
(***************************************************************************)
\* How a call ends: it returns, the process exits on a JAM, or the process
\* exits on an unknown pattern or panics.
Returned(self) == [st |-> "RUNNING", cpu |-> self]
\* a JAM arm without its `std::process::exit(1)`
Jammed_without_exit(self) == [st |-> "RUNNING", cpu |-> self]
Jammed(self)   == [st |-> "HALTED",  cpu |-> self]
Aborted(self)  == [st |-> "FAULTED", cpu |-> self]

next_byte_panics(self) == overflow_checks /\ self.reg.pc + 1 > ADDR_HI
next_byte(self) == read_byte(self.memory, W16(self.reg.pc + 1))

next_word_panics(self) ==
  next_byte_panics(self) \/ read_word_panics(W16(self.reg.pc + 1))
next_word(self) == read_word(self.memory, W16(self.reg.pc + 1))

\* `self.reg.pc += n`
advance_panics(self, n) == overflow_checks /\ self.reg.pc + n > ADDR_HI
advance(self, n) == [self EXCEPT !.reg.pc = W16(@ + n)]

\* a `next` that leaves the program counter where it is
next_without_advance(self) == self
next_panics(self) == advance_panics(self, get_increment(self.current.mode))
next(self) == advance(self, get_increment(self.current.mode))

set_pc(self, addr) == [self EXCEPT !.reg.pc = addr]
jump(self, address) == [self EXCEPT !.reg.pc = address]

\* the tail `self.next()` of a helper that changed self into changed
Finish(self, changed) ==
  IF next_panics(self) THEN Aborted(self) ELSE Returned(next(changed))

set_interrupts_disabled(self, flag) ==
  IF advance_panics(self, 1) THEN Aborted(self)
  ELSE Returned(advance([self EXCEPT !.reg.flags.interrupt_disable = flag], 1))

set_decimal(self, flag) == Finish(self, [self EXCEPT !.reg.flags.decimal = flag])

\* a set_carry that writes the zero flag as well
set_carry_and_zero(self, flag) ==
  IF advance_panics(self, 1) THEN Aborted(self)
  ELSE Returned(advance([self EXCEPT !.reg.flags.carry = flag,
                                     !.reg.flags.zero = flag], 1))

set_carry(self, flag) ==
  IF advance_panics(self, 1) THEN Aborted(self)
  ELSE Returned(advance([self EXCEPT !.reg.flags.carry = flag], 1))

set_overflow(self, flag) ==
  IF advance_panics(self, 1) THEN Aborted(self)
  ELSE Returned(advance([self EXCEPT !.reg.flags.overflow = flag], 1))

\* push_stack: write at 0x100 + sp, then `sp -= 1`
push_stack_panics(self) == overflow_checks /\ self.reg.sp = 0
\* a push_stack that leaves the stack pointer where it is
push_stack_in_place(self, data) ==
  [self EXCEPT !.memory = write_byte(@, \h100 + self.reg.sp, data)]
push_stack(self, data) ==
  [self EXCEPT !.memory = write_byte(@, \h100 + self.reg.sp, data),
               !.reg.sp = W8(@ + 255)]

\* push_stack_u16: high byte first, then low byte
push_stack_u16_panics(self, data) ==
  \/ push_stack_panics(self)
  \/ push_stack_panics(push_stack(self, data \div 256))
\* a push_stack_u16 that pushes the low byte first
push_stack_u16_low_first(self, data) ==
  push_stack(push_stack(self, data % 256), data \div 256)
push_stack_u16(self, data) ==
  push_stack(push_stack(self, data \div 256), data % 256)

\* pop_stack: panics when sp is 0xFF, else `sp += 1` and reads 0x100 + old sp + 1
pop_stack_panics(self) == self.reg.sp = \hFF
pop_stack_res(self) == read_byte(self.memory, \h100 + self.reg.sp + 1)
pop_stack(self) == [self EXCEPT !.reg.sp = W8(@ + 1)]

\* pop_stack_u16: low byte first, then high byte
pop_stack_u16_panics(self) ==
  pop_stack_panics(self) \/ pop_stack_panics(pop_stack(self))
pop_stack_u16_res(self) ==
  pop_stack_res(self) + 256 * pop_stack_res(pop_stack(self))
pop_stack_u16(self) == pop_stack(pop_stack(self))

\* get_indirect_x / get_indirect_y
get_indirect_x(self) ==
  LET address == next_byte(self)
      low  == read_byte(self.memory, W8(address + self.reg.idx))
      high == read_byte(self.memory, W8(address + W8(self.reg.idx + 1)))
  IN  high * 256 + low

get_indirect_y(self) ==
  LET address == next_byte(self)
      low  == read_byte(self.memory, W8(address + self.reg.idy))
      high == read_byte(self.memory, W8(address + W8(self.reg.idy + 1)))
  IN  high * 256 + low

\* The operand fetches shared by the address matches of the helpers
WordModes == {"Absolute", "AbsoluteX", "AbsoluteY"}
ByteModes == {"ZeroPage", "ZeroPageX", "ZeroPageY", "XIndirect", "YIndirect"}

\* TRUE when computing the address in the given mode overflows pc + 1
fetch_panics(self, modes) ==
  /\ self.current.mode \in modes
  /\ \/ self.current.mode \in WordModes /\ next_word_panics(self)
     \/ self.current.mode \in ByteModes \cup {"Immediate", "Relative"}
          /\ next_byte_panics(self)

\* the arms `Absolute => ..` to `ZeroPageY => ..`, the same in every helper
indexed_address(self) ==
  CASE self.current.mode = "Absolute"  -> next_word(self)
    [] self.current.mode = "AbsoluteX" -> W16(next_word(self) + self.reg.idx)
    [] self.current.mode = "AbsoluteY" -> W16(next_word(self) + self.reg.idy)
    [] self.current.mode = "ZeroPage"  -> next_byte(self)
    [] self.current.mode = "ZeroPageX" -> W8(next_byte(self) + self.reg.idx)
    [] self.current.mode = "ZeroPageY" -> W8(next_byte(self) + self.reg.idy)

IndexedModes == WordModes \cup {"ZeroPage", "ZeroPageX", "ZeroPageY"}

\* the modes of the helpers that take an operand: immediate, indexed, indirect
OperandModes == IndexedModes \cup {"Immediate", "XIndirect", "YIndirect"}

\* transfer_reg_to_a: no flag is touched
transfer_reg_to_a(self) ==
  IF self.current.op \notin {"TransferXToAccumulator", "TransferYToAccumulator"} THEN Aborted(self)
  ELSE
  LET source_register ==
        IF self.current.op = "TransferXToAccumulator" THEN self.reg.idx
        ELSE self.reg.idy
  IN  Finish(self, [self EXCEPT !.reg.accumulator = source_register])

\* load_register
load_register(self) ==
  IF
     \/ self.current.mode \notin OperandModes
     \/ fetch_panics(self, OperandModes)
     \/ self.current.op \notin {"LoadAccumulator", "LoadX", "LoadY"}
  THEN Aborted(self)
  ELSE
  LET address ==
        CASE self.current.mode = "Immediate" -> 0
          [] self.current.mode \in IndexedModes -> indexed_address(self)
          [] self.current.mode = "XIndirect" ->
               LET operand == next_byte(self)
                   low  == read_byte(self.memory, W8(operand + self.reg.idx))
                   high == read_byte(self.memory, W8(operand + W8(self.reg.idx + 1)))
               IN  high * 256 + low
          [] self.current.mode = "YIndirect" ->
               LET operand == next_byte(self)
                   low  == read_byte(self.memory, W8(operand + self.reg.idy))
                   high == read_byte(self.memory, W8(operand + W8(self.reg.idy + 1)))
               IN  high * 256 + low
      value == IF self.current.mode = "Immediate" THEN next_byte(self)
               ELSE read_byte(self.memory, address)
      loaded ==
        CASE self.current.op = "LoadAccumulator" -> [self EXCEPT !.reg.accumulator = value]
          [] self.current.op = "LoadX" -> [self EXCEPT !.reg.idx = value]
          [] self.current.op = "LoadY" -> [self EXCEPT !.reg.idy = value]
  IN  Finish(self, [loaded EXCEPT !.reg.flags.zero = (value = 0),
                                  !.reg.flags.negative = (And8(value, \h80) = \h80)])

\* store_register
store_register(self) ==
  IF
     \/ self.current.mode \notin IndexedModes \cup {"XIndirect", "YIndirect"}
     \/ fetch_panics(self, IndexedModes \cup {"XIndirect", "YIndirect"})
     \/ self.current.op \notin {"StoreAccumulator", "StoreX", "StoreY"}
  THEN Aborted(self)
  ELSE
  LET address ==
        CASE self.current.mode \in IndexedModes -> indexed_address(self)
          [] self.current.mode = "XIndirect" -> get_indirect_x(self)
          [] self.current.mode = "YIndirect" -> get_indirect_y(self)
      register_value ==
        CASE self.current.op = "StoreAccumulator" -> self.reg.accumulator
          [] self.current.op = "StoreX" -> self.reg.idx
          [] self.current.op = "StoreY" -> self.reg.idy
  IN  Finish(self, [self EXCEPT !.memory = write_byte(@, address, register_value)])

\* increase_register: a wrap to zero sets zero and overflow; negative is untouched
increase_register(self) ==
  IF self.current.op \notin {"IncrementX", "IncrementY"} THEN Aborted(self)
  ELSE
  LET old == IF self.current.op = "IncrementX" THEN self.reg.idx ELSE self.reg.idy
      register == W8(old + 1)
      bumped == IF self.current.op = "IncrementX"
                  THEN [self EXCEPT !.reg.idx = register]
                  ELSE [self EXCEPT !.reg.idy = register]
  IN  Finish(self, IF register = 0
             THEN [bumped EXCEPT !.reg.flags.zero = TRUE, !.reg.flags.overflow = TRUE]
             ELSE [bumped EXCEPT !.reg.flags.zero = FALSE])

\* decrease_register
decrease_register(self) ==
  IF self.current.op \notin {"DecrementX", "DecrementY"} THEN Aborted(self)
  ELSE
  LET old == IF self.current.op = "DecrementX" THEN self.reg.idx ELSE self.reg.idy
      register == W8(old + 255)
      bumped == IF self.current.op = "DecrementX"
                  THEN [self EXCEPT !.reg.idx = register]
                  ELSE [self EXCEPT !.reg.idy = register]
  IN  Finish(self, IF register = \hFF
             THEN [bumped EXCEPT !.reg.flags.zero = FALSE, !.reg.flags.negative = TRUE]
             ELSE IF register = 0
               THEN [bumped EXCEPT !.reg.flags.zero = TRUE]
               ELSE [bumped EXCEPT !.reg.flags.zero = FALSE])

\* decrement_mem
decrement_mem(self) ==
  IF
     \/ self.current.mode \notin IndexedModes
     \/ fetch_panics(self, IndexedModes)
  THEN Aborted(self)
  ELSE
  LET address == indexed_address(self)
      result == W8(read_byte(self.memory, address) + 255)
  IN  Finish(self, [self EXCEPT !.reg.flags.negative = (And8(\h80, result) = \h80),
                        !.reg.flags.zero = (0 = result),
                        !.memory = write_byte(@, address, result)])

\* an increment_mem whose match has no AbsoluteX arm
increment_mem_without_absolute_x(self) ==
  IF
     \/ self.current.mode \notin {"Absolute", "ZeroPage", "ZeroPageX"}
     \/ fetch_panics(self, {"Absolute", "ZeroPage", "ZeroPageX"})
  THEN Aborted(self)
  ELSE
  LET address == indexed_address(self)
      result == W8(read_byte(self.memory, address) + 1)
  IN  Finish(self, [self EXCEPT !.reg.flags.negative = (And8(\h80, result) = \h80),
                        !.reg.flags.zero = (0 = result),
                        !.memory = write_byte(@, address, result)])

\* increment_mem: Absolute, AbsoluteX, ZeroPage and ZeroPageX only
increment_mem(self) ==
  IF
     \/ self.current.mode \notin {"Absolute", "AbsoluteX", "ZeroPage", "ZeroPageX"}
     \/ fetch_panics(self, {"Absolute", "AbsoluteX", "ZeroPage", "ZeroPageX"})
  THEN Aborted(self)
  ELSE
  LET address == indexed_address(self)
      result == W8(read_byte(self.memory, address) + 1)
  IN  Finish(self, [self EXCEPT !.reg.flags.negative = (And8(\h80, result) = \h80),
                        !.reg.flags.zero = (0 = result),
                        !.memory = write_byte(@, address, result)])

\* shift_one_left / shift_one_right: any mode outside the match is address 0
shift_address(self) ==
  CASE self.current.mode = "Accumulator" -> 0
    [] self.current.mode \in IndexedModes -> indexed_address(self)
    [] OTHER -> 0

shift_one_left(self) ==
  IF fetch_panics(self, IndexedModes) THEN Aborted(self)
  ELSE
  LET address == shift_address(self)
      value == read_byte(self.memory, address)
      result == IF self.current.mode = "Accumulator"
                  THEN W8(self.reg.accumulator * 2)
                  ELSE W8(value * 2)
      shifted ==
        IF self.current.mode = "Accumulator"
          THEN [self EXCEPT !.reg.flags.carry = (And8(self.reg.accumulator, \h80) = \h80),
                            !.reg.accumulator = result]
          ELSE [self EXCEPT !.reg.flags.carry = (And8(value, \h80) = \h80),
                            !.memory = write_byte(@, address, result)]
  IN  Finish(self, [shifted EXCEPT !.reg.flags.zero = (result = 0),
                           !.reg.flags.negative = (And8(result, \h80) = \h80)])

shift_one_right(self) ==
  IF fetch_panics(self, IndexedModes) THEN Aborted(self)
  ELSE
  LET address == shift_address(self)
      value == read_byte(self.memory, address)
      result == IF self.current.mode = "Accumulator"
                  THEN self.reg.accumulator \div 2
                  ELSE value \div 2
      shifted ==
        IF self.current.mode = "Accumulator"
          THEN [self EXCEPT !.reg.flags.carry = (And8(\h01, self.reg.accumulator) = \h01),
                            !.reg.accumulator = result]
          ELSE [self EXCEPT !.reg.flags.carry = (And8(\h01, value) = \h01),
                            !.memory = write_byte(@, address, result)]
  IN  Finish(self, [shifted EXCEPT !.reg.flags.zero = (result = 0),
                           !.reg.flags.negative = (And8(result, \h80) = \h80)])

\* rotate: the bit rotated in is the carry computed from the operand itself
rotate(self) ==
  IF
     \/ self.current.mode \notin IndexedModes \cup {"Accumulator"}
     \/ fetch_panics(self, IndexedModes)
  THEN Aborted(self)
  ELSE
  LET address == IF self.current.mode = "Accumulator" THEN 0 ELSE indexed_address(self)
      value == IF self.current.mode = "Accumulator" THEN self.reg.accumulator
               ELSE read_byte(self.memory, address)
      left == self.current.op = "RotateOneLeft"
      carry == IF left THEN And8(\h80, value) = \h80 ELSE And8(\h01, value) = \h01
      negative == IF left THEN And8(\h40, value) = \h40 ELSE self.reg.flags.carry
      shifted == IF left
                   THEN Or8(W8(value * 2), IF carry THEN \h01 ELSE 0)
                   ELSE Or8(value \div 2, IF carry THEN \h80 ELSE 0)
      flagged == [self EXCEPT !.reg.flags.carry = carry,
                              !.reg.flags.negative = negative,
                              !.reg.flags.zero = (shifted = 0)]
  IN  Finish(self, IF self.current.mode = "Accumulator"
             THEN [flagged EXCEPT !.reg.accumulator = shifted]
             ELSE [flagged EXCEPT !.memory = write_byte(@, address, shifted)])

\* test_bit
test_bit(self) ==
  IF
     \/ self.current.mode \notin {"Absolute", "ZeroPage"}
     \/ fetch_panics(self, {"Absolute", "ZeroPage"})
  THEN Aborted(self)
  ELSE
  LET address == indexed_address(self)
      operand == read_byte(self.memory, address)
      bit_6 == And8(operand \div 64, 1)
      bit_7 == And8(operand \div 128, 1)
      result == And8(self.reg.accumulator, operand)
  IN  Finish(self, [self EXCEPT !.reg.flags.overflow = (bit_6 = 1),
                        !.reg.flags.negative = (bit_7 = 1),
                        !.reg.flags.zero = (result = 0)])

\* an add_mem_to_accumulator_with_carry that adds 6 more when the decimal flag
\* is set
add_mem_to_accumulator_in_decimal(self) ==
  LET address ==
        CASE self.current.mode = "Immediate" -> 0
          [] self.current.mode = "AbsoluteY" -> W16(next_word(self) + self.reg.idx)
          [] self.current.mode \in IndexedModes -> indexed_address(self)
          [] self.current.mode = "XIndirect" -> get_indirect_x(self)
          [] self.current.mode = "YIndirect" -> get_indirect_y(self)
      operand == IF self.current.mode = "Immediate" THEN next_byte(self)
                 ELSE read_byte(self.memory, address)
      carry_add == IF self.reg.flags.carry THEN 1 ELSE 0
      adjust == IF self.reg.flags.decimal THEN 6 ELSE 0
  IN
  IF
     \/ self.current.mode \notin OperandModes
     \/ fetch_panics(self, OperandModes)
     \/ overflow_checks /\ operand + carry_add > 255
  THEN Aborted(self)
  ELSE
  LET sum == self.reg.accumulator + W8(operand + carry_add) + adjust
      result == W8(sum)
      a == self.reg.accumulator
  IN  Finish(self, [self EXCEPT
        !.reg.flags.carry = (sum > 255),
        !.reg.flags.overflow = (And8(Xor8(a, operand), \h80) # 0)
                                 /\ (And8(Xor8(a, result), \h80) # 0),
        !.reg.flags.zero = (result = 0),
        !.reg.flags.negative = (And8(result, \h80) # 0),
        !.reg.accumulator = result])

\* add_mem_to_accumulator_with_carry: AbsoluteY indexes with idx, and
\* `operand + carry_add` is a u8 sum
add_mem_to_accumulator_with_carry(self) ==
  LET address ==
        CASE self.current.mode = "Immediate" -> 0
          [] self.current.mode = "AbsoluteY" -> W16(next_word(self) + self.reg.idx)
          [] self.current.mode \in IndexedModes -> indexed_address(self)
          [] self.current.mode = "XIndirect" -> get_indirect_x(self)
          [] self.current.mode = "YIndirect" -> get_indirect_y(self)
      operand == IF self.current.mode = "Immediate" THEN next_byte(self)
                 ELSE read_byte(self.memory, address)
      carry_add == IF self.reg.flags.carry THEN 1 ELSE 0
  IN
  IF
     \/ self.current.mode \notin OperandModes
     \/ fetch_panics(self, OperandModes)
     \/ overflow_checks /\ operand + carry_add > 255
  THEN Aborted(self)
  ELSE
  LET sum == self.reg.accumulator + W8(operand + carry_add)
      result == W8(sum)
      carry_out == sum > 255
      a == self.reg.accumulator
  IN  Finish(self, [self EXCEPT
        !.reg.flags.carry = carry_out,
        !.reg.flags.overflow = (And8(Xor8(a, operand), \h80) # 0)
                                 /\ (And8(Xor8(a, result), \h80) # 0),
        !.reg.flags.zero = (result = 0),
        !.reg.flags.negative = (And8(result, \h80) # 0),
        !.reg.accumulator = result])

\* and_accumulator / or_accumulator / eor_accumulator / subtract_accumulator_with_borrow
\* share the address match and the operand match
logic_address(self) ==
  CASE self.current.mode = "Immediate" -> 0
    [] self.current.mode \in IndexedModes -> indexed_address(self)
    [] self.current.mode = "XIndirect" -> get_indirect_x(self)
    [] self.current.mode = "YIndirect" -> get_indirect_y(self)
logic_operand(self) ==
  IF self.current.mode = "Immediate" THEN next_byte(self)
  ELSE read_byte(self.memory, logic_address(self))
logic_panics(self) ==
  \/ self.current.mode \notin OperandModes
  \/ fetch_panics(self, OperandModes)

and_accumulator(self) ==
  IF logic_panics(self) THEN Aborted(self)
  ELSE
  LET result == And8(logic_operand(self), self.reg.accumulator)
  IN  Finish(self, [self EXCEPT !.reg.accumulator = result,
                        !.reg.flags.zero = (result = 0),
                        !.reg.flags.negative = (And8(result, \h80) = \h80)])

or_accumulator(self) ==
  IF logic_panics(self) THEN Aborted(self)
  ELSE
  LET result == Or8(self.reg.accumulator, logic_operand(self))
  IN  Finish(self, [self EXCEPT !.reg.accumulator = result,
                        !.reg.flags.negative = (And8(\h80, result) = \h80),
                        !.reg.flags.zero = (result = 0)])

eor_accumulator(self) ==
  IF logic_panics(self) THEN Aborted(self)
  ELSE
  LET result == Xor8(self.reg.accumulator, logic_operand(self))
  IN  Finish(self, [self EXCEPT !.reg.accumulator = result,
                        !.reg.flags.zero = (result = 0),
                        !.reg.flags.negative = (And8(result, \h80) # 0)])

\* subtract_accumulator_with_borrow: the borrow is 1 when carry is set
subtract_accumulator_with_borrow(self) ==
  IF logic_panics(self) THEN Aborted(self)
  ELSE
  LET operand == logic_operand(self)
      borrow == IF self.reg.flags.carry THEN 1 ELSE 0
      reg_before == self.reg.accumulator
      result == W8(W8(reg_before + 256 - operand) + 256 - borrow)
      over == (borrow = 0 /\ operand > 127) /\ reg_before < 128 /\ result > 127
      under == (reg_before > 127)
                 /\ (W8(W8(256 - operand) + 256 - borrow) > 127)
                 /\ result < 128
  IN  Finish(self, [self EXCEPT !.reg.accumulator = result,
                        !.reg.flags.carry = (result \in 1..127) \/ borrow = 0,
                        !.reg.flags.zero = (result = 0),
                        !.reg.flags.negative = (And8(result, \h80) = \h80),
                        !.reg.flags.overflow = over \/ under])

\* isc_abs
isc_abs(self) ==
  IF next_word_panics(self) \/ advance_panics(self, 3) THEN Aborted(self)
  ELSE
  LET address == read_word(self.memory, W16(self.reg.pc + 1))
      operand == read_byte(self.memory, address)
      incremented_value == W8(operand + 1)
      borrow == IF self.reg.flags.carry THEN 0 ELSE 1
      a == self.reg.accumulator
      result == W8(W8(a + 256 - incremented_value) + 256 - borrow)
  IN  Returned(advance([self EXCEPT
        !.memory = write_byte(@, address, incremented_value),
        !.reg.flags.zero = (result = 0),
        !.reg.flags.negative = (And8(result, \h80) # 0),
        !.reg.flags.overflow = (And8(Xor8(a, incremented_value), \h80) # 0)
                                 /\ (And8(Xor8(a, result), \h80) # 0),
        !.reg.flags.carry = (result <= a),
        !.reg.accumulator = result], 3))

\* breakpoint, from the return of stdin().read_line(): `.expect` panics when
\* the read failed (a line that is not UTF-8), otherwise next(); nothing is
\* pushed
breakpoint(self, line_read) ==
  IF line_read THEN Finish(self, self) ELSE Aborted(self)

\* compare_register
compare_register(self) ==
  IF
     \/ self.current.mode \notin OperandModes
     \/ fetch_panics(self, OperandModes)
     \/ self.current.op \notin {"CompareAccumulator", "CompareX", "CompareY"}
  THEN Aborted(self)
  ELSE
  LET value ==
        CASE self.current.mode = "Immediate" -> next_byte(self)
          [] self.current.mode \in IndexedModes -> read_byte(self.memory, indexed_address(self))
          [] self.current.mode = "XIndirect" -> read_byte(self.memory, get_indirect_x(self))
          [] self.current.mode = "YIndirect" -> read_byte(self.memory, get_indirect_y(self))
      register ==
        CASE self.current.op = "CompareAccumulator" -> self.reg.accumulator
          [] self.current.op = "CompareX" -> self.reg.idx
          [] self.current.op = "CompareY" -> self.reg.idy
      result == W8(register + 256 - value)
  IN  Finish(self, [self EXCEPT !.reg.flags.zero = (result = 0),
                                !.reg.flags.negative = (And8(result, \h80) # 0),
                                !.reg.flags.carry = (register >= value)])

\* branch: the operand byte is added unsigned to pc + 2
BranchOps ==
  { "BranchOnResultMinus", "BranchOnResultZero", "BranchOnResultNotZero",
    "BranchOnResultPlus", "BranchOnOverflowSet", "BranchOnOverflowClear",
    "BranchOnCarrySet", "BranchOnCarryClear" }
\* a branch that never takes its jump
branch_never_taken(self) == Finish(self, self)
branch(self) ==
  LET condition ==
        CASE self.current.op = "BranchOnResultMinus"   -> self.reg.flags.negative
          [] self.current.op = "BranchOnResultZero"    -> self.reg.flags.zero
          [] self.current.op = "BranchOnResultNotZero" -> ~self.reg.flags.zero
          [] self.current.op = "BranchOnResultPlus"    -> ~self.reg.flags.negative
          [] self.current.op = "BranchOnOverflowSet"   -> self.reg.flags.overflow
          [] self.current.op = "BranchOnOverflowClear" -> ~self.reg.flags.overflow
          [] self.current.op = "BranchOnCarrySet"      -> self.reg.flags.carry
          [] self.current.op = "BranchOnCarryClear"    -> ~self.reg.flags.carry
  IN
  IF self.current.op \notin BranchOps THEN Aborted(self)
  ELSE IF condition
    THEN IF \/ self.current.mode # "Relative"
            \/ next_byte_panics(self)
            \/ overflow_checks /\ self.reg.pc + 2 + next_byte(self) > ADDR_HI
           THEN Aborted(self)
           ELSE Returned([self EXCEPT !.reg.pc = W16(self.reg.pc + 2 + next_byte(self))])
    ELSE Finish(self, self)

(***************************************************************************)
(* cpu.rs: execute.  ExecuteArm is the arm of the match that the pair      *)
(* (current.op, current.mode) selects, the first one that matches.  The    *)
(* arm (RotateOneLeft, Absolute) at lines 764-769 comes after the rotate   *)
(* arms, which match the same pair, so it is never selected.               *)
(***************************************************************************)
StoreArms ==
  ({"StoreAccumulator"} \X (IndexedModes \cup {"XIndirect", "YIndirect"}))
    \cup ({"StoreX"} \X {"Absolute", "ZeroPage", "ZeroPageY"})
    \cup ({"StoreY"} \X {"Absolute", "ZeroPage", "ZeroPageX"})

ExecuteArm(op, mode) ==
  CASE op = "Jump" /\ mode = "Absolute" -> "jump_absolute"
    [] op = "Jump" /\ mode = "Indirect" -> "jump_indirect"
    [] op = "JumpSubroutine" /\ mode = "Absolute" -> "jump_subroutine"
    [] op = "ReturnFromSubroutine" /\ mode = "Implied" -> "return_from_subroutine"
    [] op \in BranchOps /\ mode = "Relative" -> "branch"
    [] op \in {"CompareAccumulator", "CompareX", "CompareY"} -> "compare_register"
    [] <<op, mode>> \in StoreArms -> "store_register"
    [] op \in {"LoadAccumulator", "LoadX", "LoadY"} -> "load_register"
    [] op \in {"RotateOneLeft", "RotateOneRight"} /\ mode \in IndexedModes -> "rotate"
    [] op = "ReturnFromInterrupt" /\ mode = "Implied" -> "return_from_interrupt"
    [] op = "TransferStackPointerToX" /\ mode = "Implied" -> "transfer_stack_pointer_to_x"
    [] op = "PushAccumulatorOnStack" /\ mode = "Implied" -> "push_accumulator"
    [] op = "PullAccumulatorFromStack" /\ mode = "Implied" -> "pull_accumulator"
    [] op = "ShiftOneLeft" /\ mode \in IndexedModes \cup {"Accumulator"} -> "shift_one_left"
    [] op = "ShiftOneRight" /\ mode \in IndexedModes \cup {"Accumulator"} -> "shift_one_right"
    [] op \in {"IncrementX", "IncrementY"} /\ mode = "Implied" -> "increase_register"
    [] op \in {"DecrementX", "DecrementY"} /\ mode = "Implied" -> "decrease_register"
    [] op = "IncrementMem" -> "increment_mem"
    [] op = "DecrementMem" -> "decrement_mem"
    [] op = "SetDecimalMode" /\ mode = "Implied" -> "set_decimal"
    [] op \in {"ClearCarry", "SetCarry"} /\ mode = "Implied" -> "set_carry"
    [] op = "ClearOverflow" /\ mode = "Implied" -> "set_overflow"
    [] op \in {"SetInterruptDisable", "ClearInterruptDisable"} /\ mode = "Implied"
         -> "set_interrupts_disabled"
    [] op = "ClearDecimalMode" /\ mode = "Implied" -> "set_decimal"
    [] op = "TestBitsAccumulator" /\ mode \in {"Absolute", "ZeroPage"} -> "test_bit"
    [] op = "MoveXToStackPointer" /\ mode = "Implied" -> "move_x_to_stack_pointer"
    [] op = "RotateOneLeft" /\ mode = "Accumulator" -> "rotate_left_accumulator"
    [] op = "RotateOneRight" /\ mode = "Accumulator" -> "rotate_right_accumulator"
    [] op = "ISC" /\ mode = "Absolute" -> "isc_abs"
    [] op = "PushProcessorStatusOnStack" /\ mode = "Implied" -> "push_processor_status"
    [] op = "PullProcessorStatusFromStack" /\ mode = "Implied" -> "pull_processor_status"
    [] op = "TransferAccumulatorToX" /\ mode = "Implied" -> "transfer_accumulator_to_x"
    [] op = "TransferAccumulatorToY" /\ mode = "Implied" -> "transfer_accumulator_to_y"
    [] op \in {"TransferYToAccumulator", "TransferXToAccumulator"} /\ mode = "Implied"
         -> "transfer_reg_to_a"
    [] op = "AddMemToAccumulatorWithCarry" /\ mode \in OperandModes
         -> "add_mem_to_accumulator_with_carry"
    [] op = "SubtractAccumulatorWithBorrow" /\ mode \in OperandModes
         -> "subtract_accumulator_with_borrow"
    [] op = "ORAccumulator" /\ mode \in OperandModes -> "or_accumulator"
    [] op = "ANDAccumulator" /\ mode \in OperandModes -> "and_accumulator"
    [] op = "EORAccumulator" /\ mode \in OperandModes -> "eor_accumulator"
    [] op = "MissingOperation" /\ mode = "Implied" -> "missing_operation"
    [] op = "NoOperation" -> "no_operation"
    [] op = "ForceBreak" /\ mode = "Implied" -> "breakpoint"
    [] op = "JAM" /\ mode = "Implied" -> "jam"
    [] OTHER -> "unknown_pattern"

\* the arms written inline in execute
jump_absolute(self) ==
  IF next_word_panics(self) THEN Aborted(self)
  ELSE Returned(jump(self, next_word(self)))

\* the println! reads the word at the operand address before the 0x2FF test
jump_indirect(self) ==
  IF next_word_panics(self) \/ read_word_panics(next_word(self)) THEN Aborted(self)
  ELSE LET address == next_word(self)
       IN  Returned(jump(self, IF address = \h2FF THEN \h0300
                               ELSE read_word(self.memory, address)))

jump_subroutine(self) ==
  IF \/ overflow_checks /\ self.reg.pc + 2 > ADDR_HI
     \/ push_stack_u16_panics(self, W16(self.reg.pc + 2))
     \/ next_word_panics(self)
    THEN Aborted(self)
    ELSE LET pushed == push_stack_u16(self, W16(self.reg.pc + 2))
         IN  Returned(jump(pushed, next_word(pushed)))

\* an RTS that jumps to the popped address itself
return_without_increment(self) ==
  IF pop_stack_u16_panics(self) THEN Aborted(self)
  ELSE Returned(jump(pop_stack_u16(self), pop_stack_u16_res(self)))

return_from_subroutine(self) ==
  IF \/ pop_stack_u16_panics(self)
     \/ overflow_checks /\ pop_stack_u16_res(self) + 1 > ADDR_HI
    THEN Aborted(self)
    ELSE Returned(jump(pop_stack_u16(self), W16(pop_stack_u16_res(self) + 1)))

return_from_interrupt(self) ==
  IF pop_stack_panics(self) \/ pop_stack_u16_panics(pop_stack(self)) THEN Aborted(self)
  ELSE LET value == pop_stack_res(self)
           popped == [pop_stack(self) EXCEPT !.reg.flags = set_byte(value)]
       IN  Returned([pop_stack_u16(popped) EXCEPT !.reg.pc = pop_stack_u16_res(popped)])

transfer_stack_pointer_to_x(self) == Finish(self, [self EXCEPT !.reg.idx = self.reg.sp])

push_accumulator(self) ==
  IF push_stack_panics(self) THEN Aborted(self)
  ELSE Finish(self, push_stack(self, self.reg.accumulator))

pull_accumulator(self) ==
  IF pop_stack_panics(self) THEN Aborted(self)
  ELSE LET res == pop_stack_res(self)
       IN  Finish(self, [pop_stack(self) EXCEPT
                           !.reg.accumulator = res,
                           !.reg.flags.zero = (res = 0),
                           !.reg.flags.negative = (And8(\h80, res) = \h80)])

move_x_to_stack_pointer(self) == Finish(self, [self EXCEPT !.reg.sp = self.reg.idx])

rotate_left_accumulator(self) ==
  LET res == rotate_left(self.reg.accumulator)
  IN  Finish(self, [self EXCEPT !.reg.accumulator = res,
                                !.reg.flags.zero = (res = 0),
                                !.reg.flags.negative = (And8(res, \h80) = \h80)])

rotate_right_accumulator(self) ==
  LET res == rotate_right(self.reg.accumulator)
  IN  Finish(self, [self EXCEPT !.reg.accumulator = res,
                                !.reg.flags.zero = (res = 0),
                                !.reg.flags.negative = (And8(res, \h80) = \h80)])

push_processor_status(self) ==
  IF push_stack_panics(self) THEN Aborted(self)
  ELSE Finish(self, push_stack(self, as_byte(self.reg.flags)))

pull_processor_status(self) ==
  IF pop_stack_panics(self) THEN Aborted(self)
  ELSE Finish(self, [pop_stack(self) EXCEPT !.reg.flags = set_byte(pop_stack_res(self))])

transfer_accumulator_to_x(self) ==
  Finish(self, [self EXCEPT !.reg.idx = self.reg.accumulator])
transfer_accumulator_to_y(self) ==
  Finish(self, [self EXCEPT !.reg.idy = self.reg.accumulator])

\* fetch_decode_next, up to the call of execute: the pair assigned to current
fetch(self) ==
  LET pair == DecodeTable[read_byte(self.memory, self.reg.pc)]
  IN  [op |-> pair[1], mode |-> pair[2]]

\* load_bytes
load_bytes_panics(data) == write_bytes_panics(\h8000, data)
load_bytes(self, data) ==
  set_pc([self EXCEPT !.memory = write_bytes(@, \h8000, data)], \h8000)

\* load_rom: prg_rom[0] at 0x8000, prg_rom[1] (or prg_rom[0] again) at 0xC000,
\* then set_pc(0x8000); indexing an empty prg_rom panics
load_rom(self, rom) ==
  IF rom = <<>> THEN Aborted(self)
  ELSE LET upper == IF Len(rom) > 1 THEN rom[2] ELSE rom[1]
       IN  IF write_bytes_panics(\h8000, rom[1]) \/ write_bytes_panics(\hC000, upper)
             THEN Aborted(self)
             ELSE Returned(set_pc(
                    [self EXCEPT !.memory =
                       write_bytes(write_bytes(@, \h8000, rom[1]), \hC000, upper)],
                    \h8000))

(***************************************************************************)
(* Bounds of the exploration                                               *)
(***************************************************************************)
\* fetch_decode_next calls the host loop makes in one behaviour
MaxSteps == 6

\* the two operand bytes that follow the opcode in a loaded program
OperandSamples ==
  { <<\h10, \h02>>,     \* zero page $10, absolute $0210, branch offset +16
    <<\h7F, \h00>>,     \* zero page $7F, absolute $007F, branch offset +127
    <<\h00, \h20>>,     \* absolute $2000, the first PPU register; zero page $00
    <<\h00, \h80>>,     \* absolute $8000, the address of the instruction itself
    <<\hFF, \hFF>>,     \* absolute $FFFF, zero page $FF, branch offset $FF
    <<\hFF, \h02>> }    \* absolute $02FF

\* one program per opcode and operand sample, and DEY followed by INY
ProgramSamples ==
  { <<op, o[1], o[2]>> : op \in Byte, o \in OperandSamples }
    \cup { <<\h88, \hC8, \h00>> }

\* what a test writes into memory before it runs the program
DataImage ==
  << <<\h0010, \h30>>, <<\h0011, \h02>>, <<\h0014, \h40>>, <<\h0015, \h03>>,
     <<\h0016, \h03>>, <<\h00FF, \h80>>, <<\h0000, \h05>>, <<\h0004, \h01>>,
     <<\h0210, \hFF>>, <<\h0211, \h02>>, <<\h0230, \h7F>>, <<\h0234, \h81>>,
     <<\h0340, \h42>>, <<\h0215, \h01>>, <<\h0214, \h80>>, <<\h02FF, \h34>>,
     <<\h0300, \h12>>, <<\h0200, \hC0>>, <<\h01FE, \h34>>, <<\h01FF, \h12>>,
     <<\h0100, \h21>>, <<\h0101, \hA5>>, <<\h0102, \hFF>>, <<\h0103, \hFF>>,
     <<\hFFFF, \hA9>>, <<\h2000, \h55>>, <<\h2008, \h77>>, <<\h4010, \h66>> >>

\* the registers a test assigns before it runs the program: p is the status byte
RegisterSamples ==
  { [a |-> \h5A, x |-> \h05, y |-> \h04, sp |-> \hFD, p |-> \h24],
    [a |-> \hFF, x |-> \hFF, y |-> \h01, sp |-> \h00, p |-> \hE3],
    [a |-> \h00, x |-> \h00, y |-> \h00, sp |-> \hFF, p |-> \h01],
    [a |-> \h80, x |-> \h01, y |-> \hFF, sp |-> \h02, p |-> \hC0],
    [a |-> \h7F, x |-> \h7F, y |-> \h80, sp |-> \hFE, p |-> \h4A] }

RECURSIVE write_all(_, _)
write_all(bytes, writes) ==
  IF writes = <<>> THEN bytes
  ELSE LET n == Len(writes)
       IN  write_byte(write_all(bytes, SubSeq(writes, 1, n - 1)),
                      writes[n][1], writes[n][2])

(***************************************************************************)
(* The state machine                                                       *)
(***************************************************************************)
NoCall == [op |-> "new"]

Self == [memory |-> memory, reg |-> reg, current |-> current]

Init ==
  /\ memory = NesCpu_new.memory
  /\ reg = NesCpu_new.reg
  /\ current = NesCpu_new.current
  /\ status = "RUNNING"
  /\ overflow_checks \in BOOLEAN
  /\ steps = 0
  /\ call = NoCall
  /\ ret = <<>>
  /\ waiting = FALSE

\* Processor::decode_instruction(opcode), called on its own
DecodeInstruction ==
  /\ call.op = "new"
  /\ \E opcode \in Byte :
       /\ call' = [op |-> "decode_instruction", opcode |-> opcode]
       /\ ret' = decode_instruction(opcode)
  /\ UNCHANGED <<memory, reg, current, status, overflow_checks, steps, waiting>>

\* Processor::encode_instructions(instruction, addressing_mode), called on its own
EncodeInstructions ==
  /\ call.op = "new"
  /\ \E instruction \in Instructions, addressing_mode \in AddressingMode :
       /\ call' = [op |-> "encode_instructions", instruction |-> instruction,
                   addressing_mode |-> addressing_mode]
       /\ ret' = <<encode_instructions(instruction, addressing_mode)>>
  /\ UNCHANGED <<memory, reg, current, status, overflow_checks, steps, waiting>>

\* cpu.load_bytes(data) on the freshly constructed cpu
LoadBytes ==
  /\ call.op = "new"
  /\ status = "RUNNING"
  /\ \E data \in ProgramSamples :
       /\ call' = [op |-> "load_bytes", data |-> data]
       /\ IF load_bytes_panics(data)
            THEN /\ status' = "FAULTED"
                 /\ UNCHANGED <<memory, reg>>
            ELSE /\ memory' = load_bytes(Self, data).memory
                 /\ reg' = load_bytes(Self, data).reg
                 /\ status' = status
  /\ UNCHANGED <<current, overflow_checks, steps, ret, waiting>>

\* the roms main loads: prg_rom is a list of 16384-byte pages, here none, one
\* or two, each given by its first and its last bytes
RomSamples ==
  LET page(head, tail) ==
        [i \in 1..16384 |->
           IF i <= Len(head) THEN head[i]
           ELSE IF i > 16384 - Len(tail) THEN tail[i - (16384 - Len(tail))]
           ELSE 0]
  IN  { <<>>,
        << page(<<\hA0, \h10>>, <<\h20, \h30>>) >>,
        << page(<<\hA0, \h10>>, <<\h20, \h30>>),
           page(<<\hA1, \h11>>, <<\h21, \h31>>) >>,
        << page(<<\h00, \h69, \h01>>, <<\h00, \h80>>) >> }

\* cpu.load_rom(rom) on the freshly constructed cpu, as main does
LoadRom ==
  /\ call.op = "new"
  /\ status = "RUNNING"
  /\ \E rom \in RomSamples :
       /\ call' = [op |-> "load_rom", pages |-> Len(rom)]
       /\ memory' = load_rom(Self, rom).cpu.memory
       /\ reg' = load_rom(Self, rom).cpu.reg
       /\ status' = load_rom(Self, rom).st
  /\ UNCHANGED <<current, overflow_checks, steps, ret, waiting>>

\* a test's assignments to cpu.reg and its cpu.memory.write_byte calls
Arrange ==
  /\ call.op = "load_bytes"
  /\ status = "RUNNING"
  /\ steps = 0
  /\ \E r \in RegisterSamples :
       /\ call' = [op |-> "arrange", data |-> call.data]
       /\ reg' = [reg EXCEPT !.accumulator = r.a, !.idx = r.x, !.idy = r.y,
                             !.sp = r.sp, !.flags = set_byte(r.p)]
       /\ memory' = write_all(memory, DataImage)
  /\ UNCHANGED <<current, status, overflow_checks, steps, ret, waiting>>

\* the arm of execute that the byte at pc selects
Selected == ExecuteArm(fetch(Self).op, fetch(Self).mode)

\* self once fetch_decode_next has assigned current
Fetched == [Self EXCEPT !.current = fetch(Self)]

\* one call of fetch_decode_next by the host loop, ending as out
Step(out) ==
  /\ call.op \in {"load_bytes", "load_rom", "arrange"}
  /\ steps < MaxSteps
  /\ ~waiting
  /\ memory' = out.cpu.memory
  /\ reg' = out.cpu.reg
  /\ current' = out.cpu.current
  /\ status' = out.st
  /\ steps' = steps + 1
  /\ UNCHANGED <<overflow_checks, call, ret, waiting>>

\* One action per arm of execute that a fetched byte can select: the step
\* taken when the byte at pc selects that arm.  No byte decodes to
\* MissingOperation, so that arm is never selected by a fetch.
ExecuteJumpAbsolute ==
  /\ status = "RUNNING"
  /\ Selected = "jump_absolute"
  /\ Step(jump_absolute(Fetched))
ExecuteJumpIndirect ==
  /\ status = "RUNNING"
  /\ Selected = "jump_indirect"
  /\ Step(jump_indirect(Fetched))
ExecuteJumpSubroutine ==
  /\ status = "RUNNING"
  /\ Selected = "jump_subroutine"
  /\ Step(jump_subroutine(Fetched))
ExecuteReturnFromSubroutine ==
  /\ status = "RUNNING"
  /\ Selected = "return_from_subroutine"
  /\ Step(return_from_subroutine(Fetched))
ExecuteBranch ==
  /\ status = "RUNNING"
  /\ Selected = "branch"
  /\ Step(branch(Fetched))
ExecuteCompareRegister ==
  /\ status = "RUNNING"
  /\ Selected = "compare_register"
  /\ Step(compare_register(Fetched))
ExecuteStoreRegister ==
  /\ status = "RUNNING"
  /\ Selected = "store_register"
  /\ Step(store_register(Fetched))
ExecuteLoadRegister ==
  /\ status = "RUNNING"
  /\ Selected = "load_register"
  /\ Step(load_register(Fetched))
ExecuteRotate ==
  /\ status = "RUNNING"
  /\ Selected = "rotate"
  /\ Step(rotate(Fetched))
ExecuteReturnFromInterrupt ==
  /\ status = "RUNNING"
  /\ Selected = "return_from_interrupt"
  /\ Step(return_from_interrupt(Fetched))
ExecuteTransferStackPointerToX ==
  /\ status = "RUNNING"
  /\ Selected = "transfer_stack_pointer_to_x"
  /\ Step(transfer_stack_pointer_to_x(Fetched))
ExecutePushAccumulator ==
  /\ status = "RUNNING"
  /\ Selected = "push_accumulator"
  /\ Step(push_accumulator(Fetched))
ExecutePullAccumulator ==
  /\ status = "RUNNING"
  /\ Selected = "pull_accumulator"
  /\ Step(pull_accumulator(Fetched))
ExecuteShiftOneLeft ==
  /\ status = "RUNNING"
  /\ Selected = "shift_one_left"
  /\ Step(shift_one_left(Fetched))
ExecuteShiftOneRight ==
  /\ status = "RUNNING"
  /\ Selected = "shift_one_right"
  /\ Step(shift_one_right(Fetched))
ExecuteIncreaseRegister ==
  /\ status = "RUNNING"
  /\ Selected = "increase_register"
  /\ Step(increase_register(Fetched))
ExecuteDecreaseRegister ==
  /\ status = "RUNNING"
  /\ Selected = "decrease_register"
  /\ Step(decrease_register(Fetched))
ExecuteIncrementMem ==
  /\ status = "RUNNING"
  /\ Selected = "increment_mem"
  /\ Step(increment_mem(Fetched))
ExecuteDecrementMem ==
  /\ status = "RUNNING"
  /\ Selected = "decrement_mem"
  /\ Step(decrement_mem(Fetched))
ExecuteSetDecimal ==
  /\ status = "RUNNING"
  /\ Selected = "set_decimal"
  /\ Step(set_decimal(Fetched, Fetched.current.op = "SetDecimalMode"))
ExecuteSetCarry ==
  /\ status = "RUNNING"
  /\ Selected = "set_carry"
  /\ Step(set_carry(Fetched, Fetched.current.op = "SetCarry"))
ExecuteSetOverflow ==
  /\ status = "RUNNING"
  /\ Selected = "set_overflow"
  /\ Step(set_overflow(Fetched, Fetched.current.op = "SetOverflow"))
ExecuteSetInterruptsDisabled ==
  /\ status = "RUNNING"
  /\ Selected = "set_interrupts_disabled"
  /\ Step(set_interrupts_disabled(Fetched, Fetched.current.op = "SetInterruptDisable"))
ExecuteTestBit ==
  /\ status = "RUNNING"
  /\ Selected = "test_bit"
  /\ Step(test_bit(Fetched))
ExecuteMoveXToStackPointer ==
  /\ status = "RUNNING"
  /\ Selected = "move_x_to_stack_pointer"
  /\ Step(move_x_to_stack_pointer(Fetched))
ExecuteRotateLeftAccumulator ==
  /\ status = "RUNNING"
  /\ Selected = "rotate_left_accumulator"
  /\ Step(rotate_left_accumulator(Fetched))
ExecuteRotateRightAccumulator ==
  /\ status = "RUNNING"
  /\ Selected = "rotate_right_accumulator"
  /\ Step(rotate_right_accumulator(Fetched))
ExecuteIscAbs ==
  /\ status = "RUNNING"
  /\ Selected = "isc_abs"
  /\ Step(isc_abs(Fetched))
ExecutePushProcessorStatus ==
  /\ status = "RUNNING"
  /\ Selected = "push_processor_status"
  /\ Step(push_processor_status(Fetched))
ExecutePullProcessorStatus ==
  /\ status = "RUNNING"
  /\ Selected = "pull_processor_status"
  /\ Step(pull_processor_status(Fetched))
ExecuteTransferAccumulatorToX ==
  /\ status = "RUNNING"
  /\ Selected = "transfer_accumulator_to_x"
  /\ Step(transfer_accumulator_to_x(Fetched))
ExecuteTransferAccumulatorToY ==
  /\ status = "RUNNING"
  /\ Selected = "transfer_accumulator_to_y"
  /\ Step(transfer_accumulator_to_y(Fetched))
ExecuteTransferRegToA ==
  /\ status = "RUNNING"
  /\ Selected = "transfer_reg_to_a"
  /\ Step(transfer_reg_to_a(Fetched))
ExecuteAddMemToAccumulatorWithCarry ==
  /\ status = "RUNNING"
  /\ Selected = "add_mem_to_accumulator_with_carry"
  /\ Step(add_mem_to_accumulator_with_carry(Fetched))
ExecuteSubtractAccumulatorWithBorrow ==
  /\ status = "RUNNING"
  /\ Selected = "subtract_accumulator_with_borrow"
  /\ Step(subtract_accumulator_with_borrow(Fetched))
ExecuteOrAccumulator ==
  /\ status = "RUNNING"
  /\ Selected = "or_accumulator"
  /\ Step(or_accumulator(Fetched))
ExecuteAndAccumulator ==
  /\ status = "RUNNING"
  /\ Selected = "and_accumulator"
  /\ Step(and_accumulator(Fetched))
ExecuteEorAccumulator ==
  /\ status = "RUNNING"
  /\ Selected = "eor_accumulator"
  /\ Step(eor_accumulator(Fetched))
ExecuteNoOperation ==
  /\ status = "RUNNING"
  /\ Selected = "no_operation"
  /\ Step(Finish(Fetched, Fetched))
\* the ForceBreak arm up to the read_line in breakpoint, where the call of
\* fetch_decode_next blocks until the host delivers a line
ExecuteBreakpoint ==
  /\ status = "RUNNING"
  /\ Selected = "breakpoint"
  /\ call.op \in {"load_bytes", "load_rom", "arrange"}
  /\ steps < MaxSteps
  /\ ~waiting
  /\ current' = fetch(Self)
  /\ steps' = steps + 1
  /\ waiting' = TRUE
  /\ UNCHANGED <<memory, reg, status, overflow_checks, call, ret>>
\* read_line returns, with a line (or end of file) or with an error, and the
\* call of fetch_decode_next ends
ReadLine ==
  /\ waiting
  /\ \E line_read \in BOOLEAN :
       /\ memory' = breakpoint(Self, line_read).cpu.memory
       /\ reg' = breakpoint(Self, line_read).cpu.reg
       /\ status' = breakpoint(Self, line_read).st
  /\ waiting' = FALSE
  /\ UNCHANGED <<current, overflow_checks, steps, call, ret>>
ExecuteJam ==
  /\ status = "RUNNING"
  /\ Selected = "jam"
  /\ Step(Jammed(Fetched))
ExecuteUnknownPattern ==
  /\ status = "RUNNING"
  /\ Selected = "unknown_pattern"
  /\ Step(Aborted(Fetched))

\* The executor: construct, load a program, arrange registers and data, run
Next ==
  \/ LoadRom
  \/ LoadBytes
  \/ Arrange
  \/ ExecuteJumpAbsolute
  \/ ExecuteJumpIndirect
  \/ ExecuteJumpSubroutine
  \/ ExecuteReturnFromSubroutine
  \/ ExecuteBranch
  \/ ExecuteCompareRegister
  \/ ExecuteStoreRegister
  \/ ExecuteLoadRegister
  \/ ExecuteRotate
  \/ ExecuteReturnFromInterrupt
  \/ ExecuteTransferStackPointerToX
  \/ ExecutePushAccumulator
  \/ ExecutePullAccumulator
  \/ ExecuteShiftOneLeft
  \/ ExecuteShiftOneRight
  \/ ExecuteIncreaseRegister
  \/ ExecuteDecreaseRegister
  \/ ExecuteIncrementMem
  \/ ExecuteDecrementMem
  \/ ExecuteSetDecimal
  \/ ExecuteSetCarry
  \/ ExecuteSetOverflow
  \/ ExecuteSetInterruptsDisabled
  \/ ExecuteTestBit
  \/ ExecuteMoveXToStackPointer
  \/ ExecuteRotateLeftAccumulator
  \/ ExecuteRotateRightAccumulator
  \/ ExecuteIscAbs
  \/ ExecutePushProcessorStatus
  \/ ExecutePullProcessorStatus
  \/ ExecuteTransferAccumulatorToX
  \/ ExecuteTransferAccumulatorToY
  \/ ExecuteTransferRegToA
  \/ ExecuteAddMemToAccumulatorWithCarry
  \/ ExecuteSubtractAccumulatorWithBorrow
  \/ ExecuteOrAccumulator
  \/ ExecuteAndAccumulator
  \/ ExecuteEorAccumulator
  \/ ExecuteNoOperation
  \/ ExecuteBreakpoint
  \/ ReadLine
  \/ ExecuteJam
  \/ ExecuteUnknownPattern

Spec == Init /\ [][Next]_vars

\* The decoder and the encoder as pure functions of their arguments
NextDecode ==
  \/ DecodeInstruction
  \/ EncodeInstructions

SpecDecode == Init /\ [][NextDecode]_vars

(***************************************************************************)
(* The stack on its own: a push followed by a pop, through the             *)
(* instructions (PHA PLA, PHP PLP) and through push_stack and pop_stack    *)
(* called directly as the tests do, from every stack pointer; and a        *)
(* subroutine call followed by its return (JSR t, RTS at t); two pushes     *)
(* followed by two pops, and a call nested in a call.                      *)
(***************************************************************************)
StackPrograms ==
  { <<\h48, \h68>>, <<\h08, \h28>>,
    <<\h20, \h04, \h80, \hEA, \h60>>,
    <<\h20, \h06, \h80, \hEA, \hEA, \hEA, \h60>>,
    \* LDA #v1, PHA, LDA #v2, PHA, PLA, PLA
    <<\hA9, \h11, \h48, \hA9, \h22, \h48, \h68, \h68>>,
    <<\hA9, \h80, \h48, \hA9, \h00, \h48, \h68, \h68>>,
    \* LDA #0, JSR $8008, ..., at 0x8008: JSR $800C, RTS, at 0x800C: RTS
    <<\hA9, \h00, \h20, \h08, \h80, \hEA, \hEA, \hEA,
      \h20, \h0C, \h80, \h60, \h60>> }
StackValues == { \h00, \hAF, \hFB }

LoadStackProgram ==
  /\ call.op = "new"
  /\ status = "RUNNING"
  /\ \E data \in StackPrograms :
       /\ call' = [op |-> "load_bytes", data |-> data]
       /\ memory' = load_bytes(Self, data).memory
       /\ reg' = load_bytes(Self, data).reg
  /\ UNCHANGED <<current, status, overflow_checks, steps, ret, waiting>>

\* `cpu.reg.sp = sp; cpu.reg.accumulator = value; cpu.reg.flags.set_byte(value)`
ArrangeStack ==
  /\ call.op = "load_bytes"
  /\ status = "RUNNING"
  /\ steps = 0
  /\ \E sp \in Byte, value \in StackValues :
       /\ call' = [op |-> "arrange", data |-> call.data, sp |-> sp, value |-> value]
       /\ reg' = [reg EXCEPT !.sp = sp, !.accumulator = value,
                             !.flags = set_byte(value)]
  /\ UNCHANGED <<memory, current, status, overflow_checks, steps, ret, waiting>>

\* `cpu.push_stack(value)`
PushStack ==
  /\ call.op = "arrange"
  /\ status = "RUNNING"
  /\ steps = 0
  /\ call' = [call EXCEPT !.op = "push_stack"]
  /\ IF push_stack_panics(Self)
       THEN /\ status' = "FAULTED"
            /\ UNCHANGED <<memory, reg>>
       ELSE /\ memory' = push_stack(Self, call.value).memory
            /\ reg' = push_stack(Self, call.value).reg
            /\ status' = status
  /\ UNCHANGED <<current, overflow_checks, steps, ret, waiting>>

\* `cpu.pop_stack()`
PopStack ==
  /\ call.op = "push_stack"
  /\ status = "RUNNING"
  /\ call' = [call EXCEPT !.op = "pop_stack"]
  /\ IF pop_stack_panics(Self)
       THEN /\ status' = "FAULTED"
            /\ UNCHANGED <<reg, ret>>
       ELSE /\ reg' = pop_stack(Self).reg
            /\ ret' = <<pop_stack_res(Self)>>
            /\ status' = status
  /\ UNCHANGED <<memory, current, overflow_checks, steps, waiting>>

NextStack ==
  \/ LoadStackProgram
  \/ ArrangeStack
  \/ PushStack
  \/ PopStack
  \/ ExecutePushAccumulator
  \/ ExecutePullAccumulator
  \/ ExecutePushProcessorStatus
  \/ ExecutePullProcessorStatus
  \/ ExecuteJumpSubroutine
  \/ ExecuteReturnFromSubroutine
  \/ ExecuteLoadRegister

SpecStack == Init /\ [][NextStack]_vars

(***************************************************************************)
(* Arithmetic and rotation on their own: ADC #v, SEC, SBC #v and ROL then  *)
(* ROR on the accumulator and on memory, from every accumulator or target  *)
(* byte and both values of the carry.                                      *)
(***************************************************************************)
AluPrograms ==
  { <<\h69, v, \h38, \hE9, v>> : v \in {\h00, \h01, \h50, \h7F, \h80, \hFF} } \cup
  { <<\h2A, \h6A>>,
    <<\h26, \h10, \h66, \h10>>,
    <<\h36, \h10, \h76, \h10>>,
    <<\h2E, \h34, \h02, \h6E, \h34, \h02>>,
    <<\h3E, \h34, \h02, \h7E, \h34, \h02>> }

LoadAluProgram ==
  /\ call.op = "new"
  /\ status = "RUNNING"
  /\ \E data \in AluPrograms :
       /\ call' = [op |-> "load_bytes", data |-> data]
       /\ memory' = load_bytes(Self, data).memory
       /\ reg' = load_bytes(Self, data).reg
  /\ UNCHANGED <<current, status, overflow_checks, steps, ret, waiting>>

\* `cpu.reg.accumulator = a; cpu.reg.idx = 4; cpu.reg.flags.carry = carry;`
\* `cpu.memory.write_byte(target, a)` for each target
ArrangeAlu ==
  /\ call.op = "load_bytes"
  /\ status = "RUNNING"
  /\ steps = 0
  /\ \E a \in Byte, carry \in BOOLEAN :
       /\ call' = [op |-> "arrange", data |-> call.data, a |-> a, carry |-> carry]
       /\ reg' = [reg EXCEPT !.accumulator = a, !.idx = 4, !.flags.carry = carry]
       /\ memory' = write_all(memory, << <<\h0010, a>>, <<\h0014, a>>,
                                    <<\h0234, a>>, <<\h0238, a>> >>)
  /\ UNCHANGED <<current, status, overflow_checks, steps, ret, waiting>>

NextAlu ==
  \/ LoadAluProgram
  \/ ArrangeAlu
  \/ ExecuteAddMemToAccumulatorWithCarry
  \/ ExecuteSetCarry
  \/ ExecuteSubtractAccumulatorWithBorrow
  \/ ExecuteRotate
  \/ ExecuteRotateLeftAccumulator
  \/ ExecuteRotateRightAccumulator

SpecAlu == Init /\ [][NextAlu]_vars

\* C1: decode_instruction is total: for every opcode byte in 0..255 it returns
\* exactly one defined (Instructions, AddressingMode) pair and never fails.
C1_DecodeTotal ==
  call.op = "decode_instruction" =>
    /\ call.opcode \in Byte
    /\ ret \in Instructions \X AddressingMode

\* decoding byte 0xFF, which has no official meaning, returned a defined pair
C1_Witness ==
  /\ call.op = "decode_instruction"
  /\ call.opcode = \hFF
  /\ ret = <<"ISC", "AbsoluteX">>

\* C2: for every (op, mode) pair that encode_instructions has an explicit arm
\* for, decode_instruction(encode_instructions(op, mode)) = (op, mode).
C2_EncoderArmsRoundTrip ==
  (call.op = "encode_instructions" /\ CalledPair \in EncoderArms) =>
    decode_instruction(ret[1]) = CalledPair

\* C3: for every pair the decoder can return, encoding the pair and decoding
\* the byte recovers the pair; only pairs the decoder never returns encode to
\* the sentinel JAM byte 0x02.
C3_DecodablePairsRoundTrip ==
  call.op = "encode_instructions" =>
    /\ CalledPair \in DecodablePairs => decode_instruction(ret[1]) = CalledPair
    /\ ret[1] = \h02 => (CalledPair = <<"JAM", "Implied">> \/ CalledPair \notin DecodablePairs)

\* C4: for every official 6502 opcode byte, decode_instruction returns the
\* operation and the addressing mode of the standard opcode matrix, hence the
\* documented instruction length as get_increment of the mode.
C4_OfficialMatrix ==
  (call.op = "decode_instruction" /\ call.opcode \in OfficialOpcodes) =>
    /\ ret = OfficialMatrix(call.opcode)
    /\ get_increment(ret[2]) = get_increment(OfficialMatrix(call.opcode)[2])

(***************************************************************************)
(* Construction, the state machine and the program counter (C5 to C7),     *)
(* checked under Spec                                                      *)
(***************************************************************************)
\* the twelve JAM encodings of the 6502
JamEncodings ==
  { \h02, \h12, \h22, \h32, \h42, \h52, \h62, \h72, \h92, \hB2, \hD2, \hF2 }

\* a transition on which a call of fetch_decode_next ends: the whole call, or
\* for BRK the return of the read_line it was blocked in
IsStep == (steps' = steps + 1 /\ ~waiting') \/ (waiting /\ ~waiting')

\* the byte the step fetches
FetchedByte == read_byte(memory, reg.pc)

\* C5: after the CPU is constructed and a program is loaded with load_bytes,
\* before the first step, SP = 0xFD, A = X = Y = 0, I is set and C, Z, D, V, N
\* are clear, the program bytes sit at 0x8000 onward and PC = 0x8000.
C5_InitialState ==
  (call.op = "load_bytes" /\ steps = 0 /\ status = "RUNNING") =>
    /\ reg.sp = \hFD
    /\ reg.accumulator = 0 /\ reg.idx = 0 /\ reg.idy = 0
    /\ reg.flags.interrupt_disable
    /\ ~reg.flags.carry /\ ~reg.flags.zero /\ ~reg.flags.decimal
    /\ ~reg.flags.overflow /\ ~reg.flags.negative
    /\ \A i \in 1..Len(call.data) : read_byte(memory, \h8000 + i - 1) = call.data[i]
    /\ reg.pc = \h8000

\* C6: the executor is a three-state machine.  From RUNNING a step stays
\* RUNNING or enters HALTED or FAULTED; it enters HALTED exactly when the
\* fetched byte is one of the twelve JAM encodings, and FAULTED when the pair
\* is a missing operation or one execute does not accept.  HALTED and FAULTED
\* are terminal: no later transition changes the registers, the flags or memory.
C6_StateMachine ==
  [][ /\ status' \in {"RUNNING", "HALTED", "FAULTED"}
      /\ IsStep =>
           /\ status = "RUNNING"
           /\ (status' = "HALTED") <=> (FetchedByte \in JamEncodings)
           /\ Selected \in {"missing_operation", "unknown_pattern"} => status' = "FAULTED"
      /\ status # "RUNNING" => UNCHANGED <<memory, reg, status>>
    ]_vars

\* the second step of a run fetched a JAM encoding and halted the machine
C6_Witness ==
  /\ steps = 2
  /\ status = "HALTED"
  /\ FetchedByte \in JamEncodings

\* C7 as stated: after every completed step that is not a JAM, PC differs from
\* its value before the step, for every instruction including jumps, branches
\* and returns.
C7_PcChanges ==
  [][ (IsStep /\ status' = "RUNNING") => reg'.pc # reg.pc ]_vars

\* C7 amended: after every completed step that is not a JAM and not a JMP,
\* JSR, RTS or RTI, PC differs from its value before the step; a branch that
\* is not taken advances PC by 2.
C7_PcChangesUnlessControlTransfer ==
  [][ (IsStep /\ status' = "RUNNING") =>
        /\ current'.op \notin {"Jump", "JumpSubroutine", "ReturnFromSubroutine",
                               "ReturnFromInterrupt"}
             => reg'.pc # reg.pc
        /\ (current'.op \in BranchOps /\ reg'.pc # W16(reg.pc + 2 + next_byte(Self)))
             => reg'.pc = W16(reg.pc + 2)
    ]_vars

\* a branch on carry set found the carry clear, was not taken and left PC two
\* bytes further
C7_Witness ==
  /\ steps = 1
  /\ status = "RUNNING"
  /\ current.op = "BranchOnCarrySet"
  /\ ~reg.flags.carry
  /\ reg.pc = \h8002

(***************************************************************************)
(* Loads and stores (C8, C9), checked under Spec.  The effective address   *)
(* the claims speak of is the one of the 6502 addressing modes.            *)
(***************************************************************************)
\* the byte and the little-endian word that follow the opcode
OperandByte == read_byte(memory, W16(reg.pc + 1))
OperandWord ==
  combine_bytes_to_u16(read_byte(memory, W16(reg.pc + 2)), OperandByte)

\* the little-endian pointer held in zero page at zp and zp + 1
ZeroPagePointer(zp) ==
  combine_bytes_to_u16(read_byte(memory, W8(zp + 1)), read_byte(memory, W8(zp)))

\* the effective address of the 6502 addressing mode
EffectiveAddress(mode) ==
  CASE mode = "ZeroPage"  -> OperandByte
    [] mode = "ZeroPageX" -> W8(OperandByte + reg.idx)
    [] mode = "ZeroPageY" -> W8(OperandByte + reg.idy)
    [] mode = "Absolute"  -> OperandWord
    [] mode = "AbsoluteX" -> W16(OperandWord + reg.idx)
    [] mode = "AbsoluteY" -> W16(OperandWord + reg.idy)
    [] mode = "XIndirect" -> ZeroPagePointer(W8(OperandByte + reg.idx))
    [] mode = "YIndirect" -> W16(ZeroPagePointer(OperandByte) + reg.idy)

\* a step that ran the instruction op to completion
Completed(ops) == IsStep /\ status' = "RUNNING" /\ current'.op \in ops

LoadOps == {"LoadAccumulator", "LoadX", "LoadY"}
StoreOps == {"StoreAccumulator", "StoreX", "StoreY"}

\* the register a load fills or a store writes
ChosenRegister(op, r) ==
  CASE op \in {"LoadAccumulator", "StoreAccumulator"} -> r.accumulator
    [] op \in {"LoadX", "StoreX"} -> r.idx
    [] op \in {"LoadY", "StoreY"} -> r.idy

\* the operand byte of a load
LoadOperand(mode) ==
  IF mode = "Immediate" THEN OperandByte
  ELSE read_byte(memory, EffectiveAddress(mode))

\* C8: after any LDA, LDX or LDY in any of its addressing modes the chosen
\* register holds the operand byte (the immediate byte or the byte read at the
\* effective address), Z = (value = 0), N = bit 7 of the value, PC has advanced
\* by the increment of the mode, and the other two of A/X/Y, SP, the flags
\* C, I, D, V and all of memory are unchanged.
C8_LoadRegister ==
  [][ Completed(LoadOps) =>
        LET op == current'.op
            value == LoadOperand(current'.mode)
        IN /\ ChosenRegister(op, reg') = value
           /\ reg'.flags.zero = (value = 0)
           /\ reg'.flags.negative = (Bit(value, 7) = 1)
           /\ reg'.pc = W16(reg.pc + get_increment(current'.mode))
           /\ op # "LoadAccumulator" => reg'.accumulator = reg.accumulator
           /\ op # "LoadX" => reg'.idx = reg.idx
           /\ op # "LoadY" => reg'.idy = reg.idy
           /\ reg'.sp = reg.sp
           /\ reg'.flags.carry = reg.flags.carry
           /\ reg'.flags.interrupt_disable = reg.flags.interrupt_disable
           /\ reg'.flags.decimal = reg.flags.decimal
           /\ reg'.flags.overflow = reg.flags.overflow
           /\ memory' = memory
    ]_vars

\* C9: STA, STX and STY write the chosen register to the effective address of
\* their addressing mode, change exactly that one memory cell, update no flag
\* and no register other than PC, and advance PC by the increment of the mode.
C9_StoreRegister ==
  [][ Completed(StoreOps) =>
        LET address == EffectiveAddress(current'.mode)
        IN /\ memory' = write_byte(memory, address, ChosenRegister(current'.op, reg))
           /\ \A a \in (DOMAIN memory \cup DOMAIN memory') \ {address} :
                Cell(memory', a) = Cell(memory, a)
           /\ reg' = [reg EXCEPT !.pc = W16(@ + get_increment(current'.mode))]
    ]_vars

(***************************************************************************)
(* The stack (C10), checked under SpecStack                                *)
(***************************************************************************)
\* the stack pointer and the value were arranged and the push has begun
PushBegun ==
  \/ call.op \in {"push_stack", "pop_stack"}
  \/ call.op = "arrange" /\ steps > 0 /\ call.data[1] \in {\h48, \h08}

\* the push and the pop that follows it have both been called
PushedAndPopped ==
  \/ call.op = "arrange" /\ steps >= 2
  \/ call.op = "pop_stack"

\* C10: for every starting value of SP (0x00..0xFF), a push immediately
\* followed by a pop of the same register (PHA then PLA, PHP then PLP, or
\* push_stack then pop_stack) leaves SP equal to its value before the push and
\* the popped value equal to the pushed value, without faulting.
C10_PushPop ==
  PushBegun =>
    /\ status = "RUNNING"
    /\ PushedAndPopped =>
         /\ reg.sp = call.sp
         /\ (call.op = "pop_stack") => ret = <<call.value>>
         /\ (call.op = "arrange" /\ call.data[1] = \h48) => reg.accumulator = call.value
         /\ (call.op = "arrange" /\ call.data[1] = \h08) => reg.flags = set_byte(call.value)

(***************************************************************************)
(* Subroutine call and return (C11), checked under SpecStack               *)
(***************************************************************************)
\* a JSR program was loaded at 0x8000 and the stack pointer arranged
CallArranged == call.op = "arrange" /\ call.data[1] = \h20

\* C11: for every JSR located at address a with any target t and every
\* starting SP, executing the JSR and then an RTS at t leaves PC = a + 3 (one
\* byte past the three-byte JSR instruction) and SP equal to its value before
\* the JSR.
C11_CallReturn ==
  (CallArranged /\ steps > 0) =>
    /\ status = "RUNNING"
    /\ steps >= 2 => (reg.pc = \h8000 + 3 /\ reg.sp = call.sp)

(***************************************************************************)
(* Subroutine call, compare and branches (C12 to C15), checked under Spec  *)
(***************************************************************************)
\* C12: JSR at address a with operand t pushes the 16-bit value a + 2 high
\* byte first, then low byte: SP decreases by exactly 2, the byte at
\* 0x0100 + old SP is the high byte and the byte below it in the stack page is
\* the low byte; then PC = t; no other memory cell or register changes.
C12_JumpSubroutine ==
  [][ Completed({"JumpSubroutine"}) =>
        LET pushed == W16(reg.pc + 2)
            high == \h100 + reg.sp
            low == \h100 + W8(reg.sp + 255)
        IN /\ reg'.sp = W8(reg.sp + 254)
           /\ Cell(memory', high) = pushed \div 256
           /\ Cell(memory', low) = pushed % 256
           /\ \A a \in (DOMAIN memory \cup DOMAIN memory') \ {high, low} :
                Cell(memory', a) = Cell(memory, a)
           /\ reg' = [reg EXCEPT !.pc = OperandWord, !.sp = W8(reg.sp + 254)]
    ]_vars

\* JSR $0210 at 0x8000 with SP = 0xFD left 0x80 at 0x01FD, 0x02 at 0x01FC,
\* SP = 0xFB and PC = 0x0210
C12_Witness ==
  /\ steps = 1
  /\ status = "RUNNING"
  /\ current.op = "JumpSubroutine"
  /\ reg.pc = \h0210
  /\ reg.sp = \hFB
  /\ Cell(memory, \h01FD) = \h80
  /\ Cell(memory, \h01FC) = \h02

CompareOps == {"CompareAccumulator", "CompareX", "CompareY"}

\* C13: CMP, CPX and CPY with register value r and operand v, in every
\* addressing mode, set C iff r >= v, Z iff r = v and N to bit 7 of
\* (r - v) mod 256, and leave A, X, Y, SP, the flags V, I, D and memory
\* unchanged.
C13_CompareRegister ==
  [][ Completed(CompareOps) =>
        LET r == CASE current'.op = "CompareAccumulator" -> reg.accumulator
                   [] current'.op = "CompareX" -> reg.idx
                   [] current'.op = "CompareY" -> reg.idy
            v == LoadOperand(current'.mode)
        IN /\ reg'.flags.carry = (r >= v)
           /\ reg'.flags.zero = (r = v)
           /\ reg'.flags.negative = (Bit(W8(r + 256 - v), 7) = 1)
           /\ reg'.accumulator = reg.accumulator
           /\ reg'.idx = reg.idx
           /\ reg'.idy = reg.idy
           /\ reg'.sp = reg.sp
           /\ reg'.flags.overflow = reg.flags.overflow
           /\ reg'.flags.interrupt_disable = reg.flags.interrupt_disable
           /\ reg'.flags.decimal = reg.flags.decimal
           /\ memory' = memory
    ]_vars

\* the flag condition of each of the eight branches
BranchCondition(op, flags) ==
  CASE op = "BranchOnResultPlus"    -> ~flags.negative
    [] op = "BranchOnResultMinus"   -> flags.negative
    [] op = "BranchOnOverflowClear" -> ~flags.overflow
    [] op = "BranchOnOverflowSet"   -> flags.overflow
    [] op = "BranchOnCarryClear"    -> ~flags.carry
    [] op = "BranchOnCarrySet"      -> flags.carry
    [] op = "BranchOnResultNotZero" -> ~flags.zero
    [] op = "BranchOnResultZero"    -> flags.zero

\* the offset byte as a signed 8-bit value
sext(d) == IF d < 128 THEN d ELSE d - 256

\* C14: each of the eight branches is taken exactly when its flag condition
\* holds; when not taken PC advances by exactly 2, when taken with an offset
\* byte d in 0..127 PC becomes PC + 2 + d; in both cases no register other
\* than PC, no flag and no memory cell changes.
C14_Branch ==
  [][ Completed(BranchOps) =>
        LET taken == BranchCondition(current'.op, reg.flags)
            d == OperandByte
        IN /\ ~taken => reg'.pc = W16(reg.pc + 2)
           /\ (taken /\ d <= 127) => reg'.pc = W16(reg.pc + 2 + d)
           /\ (d \in 1..127 /\ reg'.pc = W16(reg.pc + 2 + d)) => taken
           /\ reg' = [reg EXCEPT !.pc = reg'.pc]
           /\ memory' = memory
    ]_vars

\* BCC with offset 0x10 at 0x8000 found the carry clear and was taken to 0x8012
C14_Witness ==
  /\ steps = 1
  /\ status = "RUNNING"
  /\ current.op = "BranchOnCarryClear"
  /\ ~reg.flags.carry
  /\ reg.pc = \h8012

\* C15: a taken branch treats its offset byte as a signed 8-bit value: for
\* every offset byte d in 0..255, PC after the branch is
\* (PC + 2 + sext(d)) mod 65536, so a branch with d >= 0x80 moves PC to a
\* lower address.
C15_BranchSigned ==
  [][ (Completed(BranchOps) /\ BranchCondition(current'.op, reg.flags)) =>
        reg'.pc = W16(reg.pc + 2 + sext(OperandByte) + 65536)
    ]_vars

(***************************************************************************)
(* Arithmetic and rotation (C16 to C20), checked under SpecAlu             *)
(***************************************************************************)
\* the program loaded at 0x8000 starts with this opcode and was arranged
AluArranged(opcodes) == call.op = "arrange" /\ call.data[1] \in opcodes

\* C16: for all A and v in 0..255, executing ADC #v with C clear, then SEC,
\* then SBC #v leaves A equal to its value before the ADC.
C16_AddThenSubtract ==
  (AluArranged({\h69}) /\ ~call.carry /\ steps = 3 /\ status = "RUNNING") =>
    reg.accumulator = call.a

\* the byte a rotation program works on
RotateTarget ==
  CASE call.data[1] = \h2A -> reg.accumulator
    [] call.data[1] = \h26 -> read_byte(memory, \h0010)
    [] call.data[1] = \h36 -> read_byte(memory, \h0014)
    [] call.data[1] = \h2E -> read_byte(memory, \h0234)
    [] call.data[1] = \h3E -> read_byte(memory, \h0238)

\* C17: for every byte b, every starting carry and every target (the
\* accumulator or an addressed memory byte), ROL on the target immediately
\* followed by ROR on the same target leaves the target byte equal to b.
C17_RotateRoundTrip ==
  (AluArranged({\h2A, \h26, \h36, \h2E, \h3E}) /\ steps > 0) =>
    /\ status = "RUNNING"
    /\ steps = 2 => RotateTarget = call.a

\* ROL $0234 then ROR $0234 ran on the byte 0x81 with the carry clear and left
\* 0x81 at 0x0234
C17_Witness ==
  /\ AluArranged({\h2E})
  /\ steps = 2
  /\ status = "RUNNING"
  /\ call.a = \h81
  /\ ~call.carry
  /\ read_byte(memory, \h0234) = \h81

\* the carry flag as a number
CarryIn == IF reg.flags.carry THEN 1 ELSE 0

\* C18: ADC, for all A, operand op in 0..255 and carry-in c, in every
\* addressing mode, computes r = A + op + c, sets C iff r > 255, sets V iff A
\* and op have the same sign bit and the low byte of r has the other sign bit,
\* sets Z and N from the low 8 bits of r and writes those bits to A, without
\* faulting.
C18_AddWithCarry ==
  [][ (IsStep /\ current'.op = "AddMemToAccumulatorWithCarry") =>
        LET a == reg.accumulator
            op == LoadOperand(current'.mode)
            r == a + op + CarryIn
        IN /\ status' = "RUNNING"
           /\ reg'.flags.carry = (r > 255)
           /\ reg'.flags.overflow = (Bit(a, 7) = Bit(op, 7) /\ Bit(W8(r), 7) # Bit(a, 7))
           /\ reg'.flags.zero = (W8(r) = 0)
           /\ reg'.flags.negative = (Bit(W8(r), 7) = 1)
           /\ reg'.accumulator = W8(r)
    ]_vars

\* C19: SBC behaves as ADC of the bitwise-inverted operand: r = A +
\* (operand XOR 0xFF) + C; C is set iff r > 255;
\* V = ((A XOR operand) AND (A XOR r) AND 0x80) # 0; A receives the low 8 bits
\* of r; Z and N are set from that result.
C19_SubtractWithBorrow ==
  [][ Completed({"SubtractAccumulatorWithBorrow"}) =>
        LET a == reg.accumulator
            operand == LoadOperand(current'.mode)
            r == a + Xor8(operand, \hFF) + CarryIn
        IN /\ reg'.flags.carry = (r > 255)
           /\ reg'.flags.overflow =
                (And8(And8(Xor8(a, operand), Xor8(a, W8(r))), \h80) # 0)
           /\ reg'.accumulator = W8(r)
           /\ reg'.flags.zero = (W8(r) = 0)
           /\ reg'.flags.negative = (Bit(W8(r), 7) = 1)
    ]_vars

\* C20: ROL and ROR rotate through the carry flag on the accumulator and on
\* memory: with c_in the carry before the step, ROL gives
\* result = ((input << 1) mod 256) | c_in and C = bit 7 of input; ROR gives
\* result = (input >> 1) | (c_in << 7) and C = bit 0 of input; Z and N are set
\* from the result.
C20_RotateThroughCarry ==
  [][ Completed({"RotateOneLeft", "RotateOneRight"}) =>
        LET mode == current'.mode
            input == IF mode = "Accumulator" THEN reg.accumulator
                     ELSE read_byte(memory, EffectiveAddress(mode))
            left == current'.op = "RotateOneLeft"
            result == IF left THEN W8(input * 2) + CarryIn
                      ELSE (input \div 2) + 128 * CarryIn
            rotated == IF mode = "Accumulator" THEN reg'.accumulator
                       ELSE read_byte(memory', EffectiveAddress(mode))
        IN /\ rotated = result
           /\ reg'.flags.carry = (Bit(input, IF left THEN 7 ELSE 0) = 1)
           /\ reg'.flags.zero = (result = 0)
           /\ reg'.flags.negative = (Bit(result, 7) = 1)
    ]_vars

(***************************************************************************)
(* Shifts, increments, transfers and the status byte (C21 to C24),         *)
(* checked under Spec                                                      *)
(***************************************************************************)
\* a completed step whose opcode is, in the 6502 opcode matrix, one of ops
CompletedOfficial(ops) ==
  /\ IsStep
  /\ status' = "RUNNING"
  /\ FetchedByte \in OfficialOpcodes
  /\ OfficialMatrix(FetchedByte)[1] \in ops

\* C21: ASL sets C to bit 7 of the input and the result to (input << 1) mod
\* 256; LSR sets C to bit 0 of the input and the result to input >> 1; both
\* set Z and N from the result and write it to A in accumulator mode,
\* otherwise to the addressed byte.
C21_Shift ==
  [][ CompletedOfficial({"ShiftOneLeft", "ShiftOneRight"}) =>
        LET mode == OfficialMatrix(FetchedByte)[2]
            left == OfficialMatrix(FetchedByte)[1] = "ShiftOneLeft"
            input == IF mode = "Accumulator" THEN reg.accumulator
                     ELSE read_byte(memory, EffectiveAddress(mode))
            result == IF left THEN W8(input * 2) ELSE input \div 2
            shifted == IF mode = "Accumulator" THEN reg'.accumulator
                       ELSE read_byte(memory', EffectiveAddress(mode))
        IN /\ shifted = result
           /\ reg'.flags.carry = (Bit(input, IF left THEN 7 ELSE 0) = 1)
           /\ reg'.flags.zero = (result = 0)
           /\ reg'.flags.negative = (Bit(result, 7) = 1)
    ]_vars

\* C22: INC, DEC, INX, INY, DEX and DEY add or subtract 1 modulo 256 to their
\* target and afterwards Z equals (new value = 0) and N equals bit 7 of the
\* new value, for every starting value of the target and of the flags.
C22_IncrementDecrement ==
  [][ Completed({"IncrementX", "IncrementY", "DecrementX", "DecrementY",
                 "IncrementMem", "DecrementMem"}) =>
        LET op == current'.op
            address == EffectiveAddress(current'.mode)
            old == CASE op \in {"IncrementX", "DecrementX"} -> reg.idx
                     [] op \in {"IncrementY", "DecrementY"} -> reg.idy
                     [] OTHER -> read_byte(memory, address)
            new == CASE op \in {"IncrementX", "DecrementX"} -> reg'.idx
                     [] op \in {"IncrementY", "DecrementY"} -> reg'.idy
                     [] OTHER -> read_byte(memory', address)
            up == op \in {"IncrementX", "IncrementY", "IncrementMem"}
        IN /\ new = W8(old + (IF up THEN 1 ELSE 255))
           /\ reg'.flags.zero = (new = 0)
           /\ reg'.flags.negative = (Bit(new, 7) = 1)
    ]_vars

\* C23: TAX, TAY, TXA, TYA and TSX copy the source register to the
\* destination and then set Z = (destination = 0) and N = bit 7 of the
\* destination; TXS copies X to SP and changes no flag.
C23_Transfer ==
  [][ /\ Completed({"TransferAccumulatorToX", "TransferAccumulatorToY",
                    "TransferXToAccumulator", "TransferYToAccumulator",
                    "TransferStackPointerToX"}) =>
           LET op == current'.op
               source == CASE op = "TransferXToAccumulator" -> reg.idx
                           [] op = "TransferYToAccumulator" -> reg.idy
                           [] op = "TransferStackPointerToX" -> reg.sp
                           [] OTHER -> reg.accumulator
               destination ==
                         CASE op \in {"TransferAccumulatorToX",
                                      "TransferStackPointerToX"} -> reg'.idx
                           [] op = "TransferAccumulatorToY" -> reg'.idy
                           [] OTHER -> reg'.accumulator
           IN /\ destination = source
              /\ reg'.flags.zero = (destination = 0)
              /\ reg'.flags.negative = (Bit(destination, 7) = 1)
      /\ Completed({"MoveXToStackPointer"}) =>
           (reg'.sp = reg.idx /\ reg'.flags = reg.flags)
    ]_vars

\* the flag of the status register held in bit i of a status byte
FlagOfBit(flags, i) ==
  CASE i = 0 -> flags.carry
    [] i = 1 -> flags.zero
    [] i = 2 -> flags.interrupt_disable
    [] i = 3 -> flags.decimal
    [] i = 6 -> flags.overflow
    [] i = 7 -> flags.negative

\* C24: the status byte pushed by PHP has bit 0 = C, bit 1 = Z, bit 2 = I,
\* bit 3 = D, bit 6 = V, bit 7 = N and bits 4 and 5 both 1, for every flag
\* state; PLP and RTI load the six flags from those bits of the popped byte
\* and ignore its bits 4 and 5, so that reading the status back as a byte
\* gives (popped byte | 0x30).
C24_StatusByte ==
  [][ /\ Completed({"PushProcessorStatusOnStack"}) =>
           LET pushed == read_byte(memory', \h100 + reg.sp)
           IN /\ \A i \in {0, 1, 2, 3, 6, 7} : (Bit(pushed, i) = 1) = FlagOfBit(reg.flags, i)
              /\ Bit(pushed, 4) = 1
              /\ Bit(pushed, 5) = 1
      /\ Completed({"PullProcessorStatusFromStack", "ReturnFromInterrupt"}) =>
           LET popped == read_byte(memory, \h100 + W8(reg.sp + 1))
           IN /\ \A i \in {0, 1, 2, 3, 6, 7} : FlagOfBit(reg'.flags, i) = (Bit(popped, i) = 1)
              /\ as_byte(reg'.flags) = Or8(popped, \h30)
    ]_vars

\* PLP with SP = 0x00 popped 0xA5 from 0x0101 and the status reads back as 0xB5
C24_Witness ==
  /\ steps = 1
  /\ status = "RUNNING"
  /\ current.op = "PullProcessorStatusFromStack"
  /\ reg.sp = \h01
  /\ as_byte(reg.flags) = \hB5

(***************************************************************************)
(* Stack pointer wrap-around (C25), checked under SpecStack                *)
(***************************************************************************)
\* C25: the stack pointer wraps modulo 256 and never faults: a push with
\* SP = 0x00 writes at 0x0100 and leaves SP = 0xFF, and a pop with SP = 0xFF
\* leaves SP = 0x00 and returns the byte at 0x0100; the core stays RUNNING in
\* both cases.
C25_StackPointerWraps ==
  /\ (call.op = "push_stack" /\ call.sp = 0) =>
       /\ status = "RUNNING"
       /\ reg.sp = \hFF
       /\ read_byte(memory, \h0100) = call.value
  /\ (call.op = "pop_stack" /\ call.sp = 0) =>
       /\ status = "RUNNING"
       /\ reg.sp = 0
       /\ ret = <<read_byte(memory, \h0100)>>

(***************************************************************************)
(* Jumps and the (zp),Y mode (C26, C27), checked under Spec                *)
(***************************************************************************)
\* the target of JMP (p): the high byte comes from the page of p
IndirectTarget(p) ==
  combine_bytes_to_u16(read_byte(memory, (p - (p % 256)) + ((p + 1) % 256)),
                       read_byte(memory, p))

\* C26: JMP (indirect) with pointer operand p sets PC to the little-endian
\* word whose low byte is read at p and whose high byte is read at
\* (p AND 0xFF00) OR ((p + 1) AND 0x00FF), for every p, with no special case
\* for p = 0x02FF; JMP absolute sets PC to its 16-bit operand.
C26_Jump ==
  [][ Completed({"Jump"}) =>
        reg'.pc = IF current'.mode = "Indirect" THEN IndirectTarget(OperandWord)
                  ELSE OperandWord
    ]_vars

\* C27: for the (zp),Y addressing mode with operand byte z the effective
\* address is ((mem[z] | mem[(z + 1) mod 256] << 8) + Y) mod 65536: the pointer
\* is read at z and z + 1 un-indexed and Y is added afterwards, for every
\* instruction that uses this mode (LDA, STA, ADC, SBC, AND, ORA, EOR, CMP).
C27_IndirectY ==
  [][ (CompletedOfficial(Instructions) /\ current'.mode = "YIndirect") =>
        /\ get_indirect_y(Fetched) = EffectiveAddress("YIndirect")
        /\ current'.op = "LoadAccumulator" =>
             reg'.accumulator = read_byte(memory, EffectiveAddress("YIndirect"))
        /\ current'.op = "StoreAccumulator" =>
             memory' = write_byte(memory, EffectiveAddress("YIndirect"), reg.accumulator)
    ]_vars

\* the I/O stub regions of the bus, and the cells on either side of them
StubRegions == (\h2000..\h2007) \cup (\h4000..\h401F)
StubEdges == {\h1FFF, \h2008, \h3FFF, \h4020}

\* the byte read back at a after the writes <<address, byte>> of a sequence,
\* given the byte read back before them
LastWritten(writes, a, before) ==
  LET hits == {i \in 1..Len(writes) : writes[i][1] = a}
  IN  IF hits = {} THEN before
      ELSE writes[CHOOSE i \in hits : \A j \in hits : j <= i][2]

\* the bus writes of a transition: the bytes of load_bytes from 0x8000 on, the
\* writes a test arranges, the one write of a store to an absolute address
BusWrites ==
  IF call'.op = "load_bytes" /\ call.op = "new" /\ status' = "RUNNING"
    THEN [i \in 1..Len(call'.data) |-> <<\h8000 + (i - 1), call'.data[i]>>]
  ELSE IF call'.op = "arrange" /\ call.op = "load_bytes"
    THEN DataImage
  ELSE IF IsStep /\ status' = "RUNNING" /\ FetchedByte \in {\h8C, \h8D, \h8E}
    THEN << <<OperandWord, ChosenRegister(current'.op, reg)>> >>
  ELSE <<>>

\* C28: after any sequence of bus writes (write_byte, write_bytes) and CPU
\* steps, read_byte returns 0 for every address in 0x2000..=0x2007 and
\* 0x4000..=0x401F; a write to such an address changes the value read back at
\* no address; at every other address read_byte returns the byte most recently
\* written there (0 if never written).
C28_Bus ==
  [][ /\ \A a \in StubRegions : read_byte(memory', a) = 0
      /\ BusWrites # <<>> =>
           \A a \in StubEdges \cup DOMAIN memory \cup DOMAIN memory'
                   \cup {BusWrites[i][1] : i \in 1..Len(BusWrites)} :
             read_byte(memory', a) =
               IF a \in StubRegions THEN 0
               ELSE LastWritten(BusWrites, a, read_byte(memory, a))
    ]_vars

\* STA $2000 has run after a test wrote 0x55 to 0x2000 and 0x77 to 0x2008
C28_Witness ==
  /\ call.op = "arrange"
  /\ call.data = <<\h8D, \h00, \h20>>
  /\ steps = 1
  /\ status = "RUNNING"
  /\ reg.pc = \h8003
  /\ reg.accumulator = \h5A
  /\ read_byte(memory, \h2000) = 0
  /\ read_byte(memory, \h2008) = \h77
  /\ read_byte(memory, \h0010) = \h30

\* the addresses read_word is probed at: the ends of the address space, the
\* I/O stub regions and their boundaries, and every cell that holds a byte
WordProbes ==
  {\h0000, \h1FFF, \h2000, \h2007, \h2008, \h3FFF, \h4000, \h401F, \h4020,
   \hFFFE, \hFFFF} \cup DOMAIN memory

\* C29: in every reachable memory state and for every address a in 0..0xFFFF
\* (including the I/O stub regions, their boundaries and a = 0xFFFF),
\* read_word(a) is infallible and equals read_byte(a) | (read_byte(a + 1) << 8).
C29_ReadWord ==
  \A a \in WordProbes :
    /\ ~read_word_panics(a)
    /\ read_word(memory, a) =
         read_byte(memory, a) + 256 * read_byte(memory, W16(a + 1))

(***************************************************************************)
(* BRK (C30), checked under Spec                                           *)
(***************************************************************************)
\* C30: BRK at address a pushes a + 2 (high byte, then low byte), then pushes
\* the status byte with the B bit set, sets I = 1 and sets PC to the
\* little-endian word stored at the IRQ/BRK vector 0xFFFE/0xFFFF; the step
\* completes without waiting on any host input.
C30_ForceBreak ==
  [][ /\ (steps' = steps + 1 /\ FetchedByte = \h00) => ~waiting'
      /\ (IsStep /\ FetchedByte = \h00) =>
        LET return == W16(reg.pc + 2)
            pushed == read_byte(memory', \h100 + W8(reg.sp - 2))
        IN /\ status' = "RUNNING"
           /\ read_byte(memory', \h100 + reg.sp) = return \div 256
           /\ read_byte(memory', \h100 + W8(reg.sp - 1)) = return % 256
           /\ \A i \in {0, 1, 2, 3, 6, 7} :
                (Bit(pushed, i) = 1) = FlagOfBit(reg.flags, i)
           /\ Bit(pushed, 4) = 1
           /\ reg'.sp = W8(reg.sp - 3)
           /\ reg'.flags.interrupt_disable
           /\ reg'.pc = combine_bytes_to_u16(read_byte(memory, \hFFFF),
                                             read_byte(memory, \hFFFE))
    ]_vars

(***************************************************************************)
(* The combined unofficial instructions (C31), checked under Spec          *)
(***************************************************************************)
CombinedOps == {"SLO", "ISC", "LAX", "DCP"}

\* the byte a combined instruction leaves in memory at its effective address
CombinedStored(op, m) ==
  CASE op = "SLO" -> W8(2 * m)
    [] op = "ISC" -> W8(m + 1)
    [] op = "DCP" -> W8(m + 255)
    [] op = "LAX" -> m

\* C31: for SLO, ISC, LAX and DCP in every addressing mode the decoder assigns
\* to them, one step keeps the core RUNNING and leaves A, X, Y, the flags and
\* memory equal to what executing the two named official operations in
\* sequence on the same operand would give (SLO = ASL mem then ORA mem;
\* ISC = INC mem then SBC mem; LAX = LDA then TAX; DCP = DEC mem then CMP mem),
\* with PC advanced by the increment of the mode.
C31_CombinedInstructions ==
  [][ (IsStep /\ decode_instruction(FetchedByte)[1] \in CombinedOps) =>
        LET op == decode_instruction(FetchedByte)[1]
            mode == decode_instruction(FetchedByte)[2]
            address == EffectiveAddress(mode)
            m == read_byte(memory, address)
            stored == CombinedStored(op, m)
            a == reg.accumulator
            r == a + Xor8(stored, \hFF) + CarryIn
            result == CASE op = "SLO" -> Or8(a, stored)
                        [] op = "ISC" -> W8(r)
                        [] op = "LAX" -> m
                        [] op = "DCP" -> a
            shown == IF op = "DCP" THEN W8(a + 256 - stored) ELSE result
        IN /\ status' = "RUNNING"
           /\ memory' = write_byte(memory, address, stored)
           /\ reg'.accumulator = result
           /\ reg'.idx = IF op = "LAX" THEN m ELSE reg.idx
           /\ reg'.idy = reg.idy
           /\ reg'.sp = reg.sp
           /\ reg'.flags.zero = (shown = 0)
           /\ reg'.flags.negative = (Bit(shown, 7) = 1)
           /\ reg'.flags.carry =
                CASE op = "SLO" -> (Bit(m, 7) = 1)
                  [] op = "ISC" -> (r > 255)
                  [] op = "DCP" -> (a >= stored)
                  [] op = "LAX" -> reg.flags.carry
           /\ reg'.flags.overflow =
                IF op = "ISC"
                  THEN (And8(And8(Xor8(a, stored), Xor8(a, W8(r))), \h80) # 0)
                  ELSE reg.flags.overflow
           /\ reg'.flags.interrupt_disable = reg.flags.interrupt_disable
           /\ reg'.flags.decimal = reg.flags.decimal
           /\ reg'.pc = W16(reg.pc + get_increment(mode))
    ]_vars

(***************************************************************************)
(* The flag instructions (C32), checked under Spec                         *)
(***************************************************************************)
FlagOps ==
  {"ClearCarry", "SetCarry", "ClearInterruptDisable", "SetInterruptDisable",
   "ClearOverflow", "ClearDecimalMode", "SetDecimalMode"}

\* the flags after the flag instruction op
FlagsAfter(op, flags) ==
  CASE op = "ClearCarry" -> [flags EXCEPT !.carry = FALSE]
    [] op = "SetCarry" -> [flags EXCEPT !.carry = TRUE]
    [] op = "ClearInterruptDisable" -> [flags EXCEPT !.interrupt_disable = FALSE]
    [] op = "SetInterruptDisable" -> [flags EXCEPT !.interrupt_disable = TRUE]
    [] op = "ClearOverflow" -> [flags EXCEPT !.overflow = FALSE]
    [] op = "ClearDecimalMode" -> [flags EXCEPT !.decimal = FALSE]
    [] op = "SetDecimalMode" -> [flags EXCEPT !.decimal = TRUE]

\* C32: each of CLC, SEC, CLI, SEI, CLV, CLD and SED sets or clears exactly
\* the flag it names, leaves the other five flags, A, X, Y, SP and memory
\* unchanged, and advances PC by 1.
C32_FlagInstructions ==
  [][ CompletedOfficial(FlagOps) =>
        /\ reg' = [reg EXCEPT
                     !.flags = FlagsAfter(OfficialMatrix(FetchedByte)[1], @),
                     !.pc = W16(@ + 1)]
        /\ memory' = memory
    ]_vars

\* SEC has run from C = 0 with Z, D and V set and N and I clear
C32_Witness ==
  /\ call.op = "arrange"
  /\ call.data[1] = \h38
  /\ steps = 1
  /\ status = "RUNNING"
  /\ current.op = "SetCarry"
  /\ reg.pc = \h8001
  /\ reg.accumulator = \h7F
  /\ as_byte(reg.flags) = \h7B

(***************************************************************************)
(* Absolute,Y addressing (C33), checked under Spec                         *)
(***************************************************************************)
\* C33: for the Absolute,Y addressing mode the effective address is
\* (16-bit operand + Y) mod 65536, independent of X, for every instruction
\* family that accepts the mode (LDA, LDX, STA, ADC, SBC, AND, ORA, EOR, CMP):
\* the step reads its operand at, or stores to, that address (for ADC and SBC
\* the result is the sum or difference with that operand, whichever way the
\* carry enters it).
C33_AbsoluteY ==
  [][ (CompletedOfficial(Instructions)
         /\ OfficialMatrix(FetchedByte)[2] = "AbsoluteY") =>
        LET op == OfficialMatrix(FetchedByte)[1]
            address == W16(OperandWord + reg.idy)
            m == read_byte(memory, address)
            a == reg.accumulator
        IN /\ op \in LoadOps => ChosenRegister(op, reg') = m
           /\ op = "StoreAccumulator" => memory' = write_byte(memory, address, a)
           /\ op = "AddMemToAccumulatorWithCarry" =>
                reg'.accumulator \in {W8(a + m), W8(a + m + 1)}
           /\ op = "SubtractAccumulatorWithBorrow" =>
                reg'.accumulator \in {W8(a + 256 - m), W8(a + 255 - m)}
           /\ op = "ANDAccumulator" => reg'.accumulator = And8(a, m)
           /\ op = "ORAccumulator" => reg'.accumulator = Or8(a, m)
           /\ op = "EORAccumulator" => reg'.accumulator = Xor8(a, m)
           /\ op = "CompareAccumulator" =>
                /\ reg'.flags.zero = (a = m)
                /\ reg'.flags.carry = (a >= m)
    ]_vars

(***************************************************************************)
(* Program counter arithmetic (C34), checked under Spec                    *)
(***************************************************************************)
ControlFlowOps ==
  BranchOps \cup {"Jump", "JumpSubroutine", "ReturnFromSubroutine",
                  "ReturnFromInterrupt", "ForceBreak", "JAM"}

\* C34: PC arithmetic wraps at 16 bits and never faults: every
\* non-control-flow instruction fetched at PC = p leaves
\* PC = (p + increment) mod 65536, its operand bytes are read at
\* (p + 1) mod 65536 and (p + 2) mod 65536, and a taken branch or an RTS whose
\* computed target exceeds 0xFFFF wraps to the low addresses, with the core
\* staying RUNNING.
C34_ProgramCounterWraps ==
  [][ (IsStep /\ FetchedByte \in OfficialOpcodes) =>
        LET op == decode_instruction(FetchedByte)[1]
            mode == decode_instruction(FetchedByte)[2]
            wraps == reg.pc + get_increment(mode) > ADDR_HI
            d == OperandByte
            popped == combine_bytes_to_u16(read_byte(memory, \h100 + W8(reg.sp + 2)),
                                           read_byte(memory, \h100 + W8(reg.sp + 1)))
        IN /\ (op \notin ControlFlowOps /\ (wraps \/ status' = "RUNNING")) =>
                /\ status' = "RUNNING"
                /\ reg'.pc = W16(reg.pc + get_increment(mode))
                /\ (op \in LoadOps /\ mode = "Immediate") =>
                     ChosenRegister(op, reg') = OperandByte
           /\ (op \in BranchOps /\ BranchCondition(op, reg.flags)
                 /\ d <= 127 /\ reg.pc + 2 + d > ADDR_HI) =>
                /\ status' = "RUNNING"
                /\ reg'.pc = W16(reg.pc + 2 + d)
           /\ (op = "ReturnFromSubroutine" /\ popped = ADDR_HI) =>
                /\ status' = "RUNNING"
                /\ reg'.pc = 0
    ]_vars

(***************************************************************************)
(* Read-modify-write instructions (C35), checked under Spec                *)
(***************************************************************************)
RmwOps ==
  {"IncrementMem", "DecrementMem", "ShiftOneLeft", "ShiftOneRight",
   "RotateOneLeft", "RotateOneRight"}

\* C35: every read-modify-write instruction in a memory addressing mode (INC,
\* DEC, ASL, LSR, ROL, ROR) writes exactly one memory cell per step, namely the
\* effective address whose original value it read, and leaves every other
\* memory cell and A, X, Y and SP unchanged.
C35_ReadModifyWrite ==
  [][ (CompletedOfficial(RmwOps)
         /\ OfficialMatrix(FetchedByte)[2] # "Accumulator") =>
        LET address == EffectiveAddress(OfficialMatrix(FetchedByte)[2])
        IN /\ \A a \in (DOMAIN memory \cup DOMAIN memory') \ {address} :
                read_byte(memory', a) = read_byte(memory, a)
           /\ reg'.accumulator = reg.accumulator
           /\ reg'.idx = reg.idx
           /\ reg'.idy = reg.idy
           /\ reg'.sp = reg.sp
    ]_vars

(***************************************************************************)
(* The decimal flag (C36), checked under Spec                              *)
(***************************************************************************)
\* the core about to execute, with the decimal flag inverted
DecimalTwin == [Fetched EXCEPT !.reg.flags.decimal = ~@]

\* what the ADC or SBC step under way gives when run on the twin
TwinOutcome ==
  IF Selected = "add_mem_to_accumulator_with_carry"
    THEN add_mem_to_accumulator_with_carry(DecimalTwin)
    ELSE subtract_accumulator_with_borrow(DecimalTwin)

\* C36: the decimal flag is inert: two copies of the core whose states differ
\* only in the D flag and that execute the same ADC or SBC step end with equal
\* A, C, Z, V, N, PC and memory, and D itself is changed only by SED, CLD, PLP
\* and RTI.
C36_DecimalInert ==
  [][ /\ (IsStep /\ Selected \in {"add_mem_to_accumulator_with_carry",
                                  "subtract_accumulator_with_borrow"}) =>
           /\ TwinOutcome.st = status'
           /\ TwinOutcome.cpu.memory = memory'
           /\ TwinOutcome.cpu.reg =
                [reg' EXCEPT !.flags.decimal = ~reg.flags.decimal]
           /\ reg'.flags.decimal = reg.flags.decimal
      /\ (IsStep /\ reg'.flags.decimal # reg.flags.decimal) =>
           current'.op \in {"SetDecimalMode", "ClearDecimalMode",
                            "PullProcessorStatusFromStack", "ReturnFromInterrupt"}
    ]_vars

\* ADC #$10 has run from A = 0x7F with D set and C clear: A is the binary sum
C36_Witness ==
  /\ call.op = "arrange"
  /\ call.data = <<\h69, \h10, \h02>>
  /\ steps = 1
  /\ status = "RUNNING"
  /\ current.op = "AddMemToAccumulatorWithCarry"
  /\ reg.flags.decimal
  /\ reg.accumulator = \h8F
  /\ reg.pc = \h8002

(***************************************************************************)
(* The stack is last-in first-out (C37), checked under SpecStack           *)
(***************************************************************************)
StackPage == \h0100..\h01FF

\* the program LDA #v1, PHA, LDA #v2, PHA, PLA, PLA was loaded and SP arranged
LifoArranged ==
  /\ call.op = "arrange"
  /\ call.data[1] = \hA9
  /\ call.data[3] = \h48

\* C37: the stack is last-in first-out: starting from any SP >= k, k
\* consecutive PHA steps pushing v1..vk followed by k consecutive PLA steps
\* load A with vk, ..., v1 in that order, write only cells in the stack page
\* 0x0100..=0x01FF, and leave SP equal to its starting value (k = 2, with the
\* two values loaded by LDA before each PHA).
C37_StackLifo ==
  (LifoArranged /\ call.sp >= 2) =>
    /\ status = "RUNNING"
    /\ steps = 5 => reg.accumulator = call.data[5]
    /\ steps = 6 => (reg.accumulator = call.data[2] /\ reg.sp = call.sp)
    /\ \A a \in DOMAIN memory \ StackPage :
         /\ a \in \h8000..(\h8000 + Len(call.data) - 1)
         /\ memory[a] = call.data[a - \h8000 + 1]
    /\ \A i \in 1..Len(call.data) :
         read_byte(memory, \h8000 + i - 1) = call.data[i]

\* from SP = 0x02 the values 0x11 and 0x22 were pushed and pulled back
C37_Witness ==
  /\ LifoArranged
  /\ call.sp = 2
  /\ call.data[2] = \h11
  /\ call.data[5] = \h22
  /\ steps = 6
  /\ status = "RUNNING"
  /\ reg.accumulator = \h11
  /\ reg.sp = 2
  /\ read_byte(memory, \h0102) = \h11
  /\ read_byte(memory, \h0101) = \h22

(***************************************************************************)
(* Nested subroutine calls (C38), checked under SpecStack                  *)
(***************************************************************************)
\* the program LDA #0, JSR $8008 (at 0x8002), JSR $800C (at 0x8008), RTS (at
\* 0x800C), RTS (at 0x800B) was loaded and SP arranged
NestArranged ==
  /\ call.op = "arrange"
  /\ call.data[1] = \hA9
  /\ call.data[3] = \h20

\* C38: subroutine calls nest: for any n with 2n <= SP, n JSR steps at
\* addresses a1..an followed by n RTS steps return to an + 3, ..., a1 + 3 in
\* that order (reverse of the calls) and leave SP equal to its value before
\* the first JSR (n = 2, a1 = 0x8002, a2 = 0x8008).
C38_CallsNest ==
  (NestArranged /\ call.sp >= 4) =>
    /\ status = "RUNNING"
    /\ steps = 2 => reg.pc = \h8008
    /\ steps = 3 => reg.pc = \h800C
    /\ steps = 4 => reg.pc = \h8008 + 3
    /\ steps = 5 => (reg.pc = \h8002 + 3 /\ reg.sp = call.sp)

\* from SP = 0x04 both calls have returned, the inner one first
C38_Witness ==
  /\ NestArranged
  /\ call.sp = 4
  /\ steps = 5
  /\ status = "RUNNING"
  /\ reg.pc = \h8005
  /\ reg.sp = 4
  /\ read_byte(memory, \h0104) = \h80
  /\ read_byte(memory, \h0103) = \h04
  /\ read_byte(memory, \h0102) = \h80
  /\ read_byte(memory, \h0101) = \h0A

(***************************************************************************)
(* Flags left alone by increments and decrements (C39), checked under Spec *)
(***************************************************************************)
IncDecOps ==
  {"IncrementX", "IncrementY", "DecrementX", "DecrementY",
   "IncrementMem", "DecrementMem"}

\* C39: INX, INY, DEX, DEY, INC and DEC change no flag other than Z and N: the
\* C, V, I and D flags after the step equal their values before it, for every
\* starting value of the target including the wrap cases 0xFF -> 0x00 and
\* 0x00 -> 0xFF.
C39_IncDecFlags ==
  [][ CompletedOfficial(IncDecOps) =>
        /\ reg'.flags.carry = reg.flags.carry
        /\ reg'.flags.overflow = reg.flags.overflow
        /\ reg'.flags.interrupt_disable = reg.flags.interrupt_disable
        /\ reg'.flags.decimal = reg.flags.decimal
    ]_vars

(***************************************************************************)
(* The executor accepts what the decoder produces (C40), checked under     *)
(* Spec                                                                    *)
(***************************************************************************)
\* the instructions that pop the stack, and the bytes each pops
PullCount(op) ==
  CASE op \in {"PullAccumulatorFromStack", "PullProcessorStatusFromStack"} -> 1
    [] op = "ReturnFromSubroutine" -> 2
    [] op = "ReturnFromInterrupt" -> 3
    [] OTHER -> 0

\* C40: the executor accepts every pair the decoder produces for an official
\* opcode: for each of the 151 official opcode bytes, dispatching
\* decode_instruction(byte) never reaches the unknown-pattern fault arm, the
\* missing-operation arm or a helper's invalid-mode/invalid-op panic, so a
\* step over an official opcode cannot enter FAULTED through a mode mismatch:
\* it faults only on an arithmetic overflow, on a pop from an empty stack or,
\* for BRK, on a failed read of the host's input.
C40_ExecutorAcceptsOfficial ==
  [][ (IsStep /\ FetchedByte \in OfficialOpcodes) =>
        LET pair == decode_instruction(FetchedByte)
        IN /\ ExecuteArm(pair[1], pair[2]) \notin {"unknown_pattern", "missing_operation"}
           /\ current' = [op |-> pair[1], mode |-> pair[2]]
           /\ (~overflow_checks /\ reg.sp + PullCount(pair[1]) <= \hFF /\ ~waiting) =>
                status' = "RUNNING"
    ]_vars

\* INC $0210,X has run with X = 5 and incremented the byte at 0x0215
C40_Witness ==
  /\ call.op = "arrange"
  /\ call.data = <<\hFE, \h10, \h02>>
  /\ steps = 1
  /\ status = "RUNNING"
  /\ ~overflow_checks
  /\ current = [op |-> "IncrementMem", mode |-> "AbsoluteX"]
  /\ reg.idx = 5
  /\ read_byte(memory, \h0215) = \h02
  /\ reg.pc = \h8003
=============================================================================
